---- MODULE Spec2Model ----
(***************************************************************************)
(* Resilience and fan-in layer of the exchange connector                   *)
(* (tommy-ca/opensqt_market_maker, python-connector and python_connector). *)
(*                                                                         *)
(*   - errors.py : EXCEPTION_MAP, handle_ccxt_exception, retry_transient   *)
(*   - binance.py: PlaceOrder/_place_order_impl, BatchPlaceOrders,         *)
(*                 BatchCancelOrders, SubscribeKlines                      *)
(*                                                                         *)
(* Three specifications share the module:                                  *)
(*   SpecUnary  - one PlaceOrder RPC through both decorators               *)
(*   SpecBatch  - one BatchPlaceOrders or one BatchCancelOrders RPC        *)
(*                (native path and fallback)                               *)
(*   SpecStream - one SubscribeKlines call (producers, queue, consumer)    *)
(***************************************************************************)
EXTENDS Integers, Sequences, FiniteSets, TLC

(***************************************************************************)
(* Exceptions.  An exception is a record [cls, msg]; msg is a serial       *)
(* number that tells two failures of the same class apart.                 *)
(***************************************************************************)

\* The exception classes the connector can see: the ccxt hierarchy, a
\* non-ccxt Python error ("Exception"), grpc's abort error and asyncio's
\* CancelledError, which derives from BaseException and not from Exception.
ExcClasses ==
    { "BaseException", "CancelledError", "Exception", "BaseError", "ExchangeError", "AuthenticationError",
      "BadRequest", "InsufficientFunds", "InvalidOrder", "OrderNotFound",
      "DuplicateOrderId", "NotSupported", "OperationFailed", "NetworkError",
      "DDoSProtection", "RateLimitExceeded", "ExchangeNotAvailable",
      "OnMaintenance", "RequestTimeout", "RpcError" }

\* Direct base class of each class (ccxt.base.errors).
Parent(c) ==
    CASE c = "Exception"            -> "BaseException"
      [] c = "CancelledError"       -> "BaseException"
      [] c = "BaseError"            -> "Exception"
      [] c = "ExchangeError"        -> "BaseError"
      [] c = "AuthenticationError"  -> "ExchangeError"
      [] c = "BadRequest"           -> "ExchangeError"
      [] c = "InsufficientFunds"    -> "ExchangeError"
      [] c = "InvalidOrder"         -> "ExchangeError"
      [] c = "OrderNotFound"        -> "InvalidOrder"
      [] c = "DuplicateOrderId"     -> "InvalidOrder"
      [] c = "NotSupported"         -> "ExchangeError"
      [] c = "OperationFailed"      -> "BaseError"
      [] c = "NetworkError"         -> "OperationFailed"
      [] c = "DDoSProtection"       -> "NetworkError"
      [] c = "RateLimitExceeded"    -> "DDoSProtection"
      [] c = "ExchangeNotAvailable" -> "NetworkError"
      [] c = "OnMaintenance"        -> "ExchangeNotAvailable"
      [] c = "RequestTimeout"       -> "NetworkError"
      [] c = "RpcError"             -> "Exception"
      [] OTHER                      -> "Exception"

RECURSIVE Ancestors(_)
\* The class itself and all its base classes up to BaseException.
Ancestors(c) ==
    IF c = "BaseException" THEN {"BaseException"}
    ELSE {c} \cup Ancestors(Parent(c))

\* The method resolution order of every class, computed once.
AncestorsOf == [ c \in ExcClasses |-> Ancestors(c) ]

\* isinstance(e, cls)
IsInstance(e, cls) == cls \in AncestorsOf[e.cls]

NoExc == [cls |-> "none", msg |-> 0]

MkExc(c, m) == [cls |-> c, msg |-> m]

(***************************************************************************)
(* errors.py: EXCEPTION_MAP and the status lookup of handle_ccxt_exception *)
(***************************************************************************)

\* Mutant: the generic ExchangeError row moved to the head of the table.
EXCEPTION_MAP_GenericFirst ==
    << <<"ExchangeError",        "FAILED_PRECONDITION">>,
       <<"InsufficientFunds",    "RESOURCE_EXHAUSTED">>,
       <<"OrderNotFound",        "NOT_FOUND">>,
       <<"DuplicateOrderId",     "ALREADY_EXISTS">>,
       <<"InvalidOrder",         "INVALID_ARGUMENT">>,
       <<"BadRequest",           "INVALID_ARGUMENT">>,
       <<"AuthenticationError",  "UNAUTHENTICATED">>,
       <<"RateLimitExceeded",    "RESOURCE_EXHAUSTED">>,
       <<"NetworkError",         "UNAVAILABLE">>,
       <<"ExchangeNotAvailable", "UNAVAILABLE">> >>

EXCEPTION_MAP ==
    << <<"InsufficientFunds",    "RESOURCE_EXHAUSTED">>,
       <<"OrderNotFound",        "NOT_FOUND">>,
       <<"DuplicateOrderId",     "ALREADY_EXISTS">>,
       <<"InvalidOrder",         "INVALID_ARGUMENT">>,
       <<"BadRequest",           "INVALID_ARGUMENT">>,
       <<"AuthenticationError",  "UNAUTHENTICATED">>,
       <<"RateLimitExceeded",    "RESOURCE_EXHAUSTED">>,
       <<"NetworkError",         "UNAVAILABLE">>,
       <<"ExchangeNotAvailable", "UNAVAILABLE">>,
       <<"ExchangeError",        "FAILED_PRECONDITION">> >>

\* Mutant: the last matching row decides.
FirstMatchLastRow(e, table, i) ==
    LET rows == { k \in i..Len(table) : IsInstance(e, table[k][1]) }
    IN  IF rows = {} THEN "UNKNOWN"
        ELSE table[CHOOSE k \in rows : \A j \in rows : j <= k][2]

RECURSIVE FirstMatch(_, _, _)
\* for exc_class, code in table[i..]: if isinstance(e, exc_class): return code
FirstMatch(e, table, i) ==
    IF i > Len(table) THEN "UNKNOWN"
    ELSE IF IsInstance(e, table[i][1]) THEN table[i][2]
    ELSE FirstMatch(e, table, i + 1)

\* The status handle_ccxt_exception computes for e (python-connector).
StatusCodeOf(e) == FirstMatch(e, EXCEPTION_MAP, 1)

\* The except chain of python_connector's handle_ccxt_exception.
StatusCodeOfLegacy(e) ==
    IF IsInstance(e, "InsufficientFunds") THEN "RESOURCE_EXHAUSTED"
    ELSE IF IsInstance(e, "OrderNotFound") THEN "NOT_FOUND"
    ELSE IF IsInstance(e, "DuplicateOrderId") THEN "ALREADY_EXISTS"
    ELSE IF IsInstance(e, "InvalidOrder") \/ IsInstance(e, "BadRequest")
         THEN "INVALID_ARGUMENT"
    ELSE IF IsInstance(e, "AuthenticationError") THEN "UNAUTHENTICATED"
    ELSE IF IsInstance(e, "RateLimitExceeded") THEN "RESOURCE_EXHAUSTED"
    ELSE IF IsInstance(e, "NetworkError") \/ IsInstance(e, "ExchangeNotAvailable")
         THEN "UNAVAILABLE"
    ELSE IF IsInstance(e, "ExchangeError") THEN "FAILED_PRECONDITION"
    ELSE "UNKNOWN"

\* The numeric value of a grpc.StatusCode.
CodeValue(status) ==
    CASE status = "UNKNOWN"             -> 2
      [] status = "INVALID_ARGUMENT"    -> 3
      [] status = "NOT_FOUND"           -> 5
      [] status = "ALREADY_EXISTS"      -> 6
      [] status = "RESOURCE_EXHAUSTED"  -> 8
      [] status = "FAILED_PRECONDITION" -> 9
      [] status = "UNAVAILABLE"         -> 14
      [] status = "UNAUTHENTICATED"     -> 16

\* _map_exception_to_code: first match over EXCEPTION_MAP, as a number
MapExceptionToCode(e) == CodeValue(FirstMatch(e, EXCEPTION_MAP, 1))

\* Mutant: the retry loop catches whatever maps to the status of a transient
\* kind, so InsufficientFunds (RESOURCE_EXHAUSTED) is retried as well.
RetryCaughtByStatus(e) ==
    StatusCodeOf(e) \in { "RESOURCE_EXHAUSTED", "UNAVAILABLE" }

\* Mutant: the retry loop catches every ccxt error.
RetryCaughtAnyCcxt(e) == IsInstance(e, "BaseError")

\* except (ccxt.NetworkError, ccxt.ExchangeNotAvailable, ccxt.RateLimitExceeded)
RetryCaught(e) ==
    \/ IsInstance(e, "NetworkError")
    \/ IsInstance(e, "ExchangeNotAvailable")
    \/ IsInstance(e, "RateLimitExceeded")


(***************************************************************************)
(* Program constants                                                       *)
(***************************************************************************)

\* retry_transient(max_retries=3, ...)
max_retries == 3

\* retry_transient(..., initial_backoff=0.1), in tenths of a second
initial_backoff == 1

\* asyncio.sleep(5) of the watch loops, in tenths of a second
WatchErrorDelay == 50

(***************************************************************************)
(* The venue (ccxt exchange object), seen from the connector               *)
(***************************************************************************)

\* Classes a venue call may raise: every row of EXCEPTION_MAP, a transient
\* subclass without a row of its own, and a non-ccxt error.
VenueErrors ==
    { "InsufficientFunds", "OrderNotFound", "DuplicateOrderId", "InvalidOrder",
      "BadRequest", "AuthenticationError", "RateLimitExceeded", "NetworkError",
      "ExchangeNotAvailable", "ExchangeError", "RequestTimeout", "Exception" }

\* Order ids the venue reports: a numeric string and a non-numeric one.
VenueOrderIds == { [isdigit |-> TRUE, n |-> 7], [isdigit |-> FALSE, n |-> 8] }

\* client_order_id of a request: "" or a caller-supplied key
ClientOrderIds == { "", "c1" }

\* A ccxt order dict as create_order / fetch_order return it.
VenueOrder(id, coid) == [id |-> id, clientOrderId |-> coid]

\* _map_order: ccxt order dict -> models_pb2.Order
MapOrder(o) ==
    [ order_id        |-> IF o.id.isdigit THEN o.id.n ELSE 0,
      client_order_id |-> o.clientOrderId ]

\* PlaceOrderRequest: side and type are enum values, UNSPECIFIED included.
Sides == { "BUY", "SELL", "UNSPECIFIED" }
Types == { "LIMIT", "MARKET", "UNSPECIFIED" }

\* Mutant: an unknown side falls back to "buy" instead of raising.
ReverseMapSideDefaults(side) == FALSE

\* _reverse_map_side: "buy" / "sell", or raises ccxt.BadRequest
ReverseMapSideRaises(side) == side \notin { "BUY", "SELL" }

\* _reverse_map_type: "limit" / "market", or raises ccxt.BadRequest
ReverseMapTypeRaises(type) == type \notin { "LIMIT", "MARKET" }

Requests ==
    [ side : Sides, type : Types, client_order_id : ClientOrderIds ]

\* The enum conversions at the head of _place_order_impl raise BadRequest.
RequestInvalid(r) == ReverseMapSideRaises(r.side) \/ ReverseMapTypeRaises(r.type)

Variants == { "python-connector", "python_connector" }

\* Whether the enum conversions of the package's PlaceOrder raise for r:
\* python-connector's raise BadRequest, python_connector's fall back to
\* "buy" and "limit" and never raise.
EnumsRejected(v, r) == v = "python-connector" /\ RequestInvalid(r)

(***************************************************************************)
(* State                                                                   *)
(***************************************************************************)
VARIABLES
    \* ---- one unary PlaceOrder RPC --------------------------------------
    variant,      \* the package whose decorators wrap the call
    request,      \* the PlaceOrderRequest
    hasContext,   \* whether an RPC context was passed (tests pass None)
    pc,           \* "idle" | "attempt" | "create_order" | "fetch_order" |
                  \* "sleep" | "done"
    attempt,      \* loop variable of retry_transient
    backoff,      \* next sleep of retry_transient (tenths of a second)
    last_err,     \* python_connector's last_err
    slept,        \* sequence of the sleeps performed
    createCalls,  \* invocations of exchange.create_order
    fetchCalls,   \* invocations of exchange.fetch_order
    lastCreate,   \* outcome of the latest create_order: "none" | "ok" | class
    lastFetch,    \* outcome of the latest fetch_order (a record, see NoFetch)
    submissions,  \* outcome of each create_order call so far: "ok" | class
    invocations,  \* invocations of the wrapped function by the retry loop
    attemptErrs,  \* the exception each failed attempt of func raised
    retryRaised,  \* the exception that left the retry wrapper (or NoExc)
    aborts,       \* calls of context.abort: <<status, msg>>
    logs,         \* log records
    outcome,      \* [kind |-> "none"] | [kind |-> "return", order |-> ...] |
                  \* [kind |-> "raise", exc |-> ..., status |-> ...]
    nexc          \* exceptions raised so far (serial of the next one - 1)

unaryVars ==
    << variant, request, hasContext, pc, attempt, backoff, last_err, slept,
       createCalls, fetchCalls, lastCreate, lastFetch, submissions,
       invocations, attemptErrs, retryRaised, aborts, logs, outcome, nexc >>

VARIABLES
    \* ---- one BatchPlaceOrders RPC (python-connector) -------------------
    bOrders,      \* request.orders: sequence of PlaceOrderRequest
    bHasNative,   \* exchange.has.get("createOrders")
    bPc,          \* "idle" | "native" | "gather" | "done"
    bNativeCalls, \* invocations of exchange.create_orders
    bNativeErr,   \* the exception create_orders raised (or NoExc)
    bItems,       \* per item: the task running _place_order_impl(req)
    bLogs,        \* log records written by BatchPlaceOrders itself
    bAborts,      \* calls of context.abort on the RPC context
    bOutcome,     \* [kind |-> "none"] | the response | the raised failure
    bReordered    \* a task of the fallback finished before an earlier one

batchVars ==
    << bOrders, bHasNative, bPc, bNativeCalls, bNativeErr, bItems, bLogs,
       bAborts, bOutcome, bReordered >>

VARIABLES
    \* ---- one SubscribeKlines call (python-connector) --------------------
    sVariant,     \* the package whose SubscribeKlines was called
    sSymbols,     \* list(request.symbols)
    sPc,          \* the stream body: "idle" | "get" | "yielded" | "join" |
                  \* "closed"
    sProd,        \* per symbol position: the producer task and its generator
    sQueue,       \* the asyncio.Queue of the call
    sReceived,    \* the items yielded to the caller, in order
    sEndedBy      \* what made the body leave its loop: "none" |
                  \* "cancelled" (CancelledError at queue.get) |
                  \* "closed" (GeneratorExit at yield)

streamVars == << sVariant, sSymbols, sPc, sProd, sQueue, sReceived, sEndedBy >>

VARIABLES
    \* ---- one call of a stream whose body is the watch loop itself ------
    \* ---- (SubscribePrice, SubscribeOrders, SubscribeAccount,
    \* ----  SubscribePositions; python-connector)
    wRpc,         \* the RPC called, "none" before the call
    wSymbols,     \* list(request.symbols) of SubscribePrice
    wPc,          \* "idle" | "watch" | "silent" | "yielded" | "sleep" |
                  \* "ended"
    wCalls,       \* invocations of the watch_* method
    wFailures,    \* failed iterations since the last successful watch
    wErrorLogs,   \* logger.error records written by the loop
    wSleepFor,    \* delay of the sleep in progress (tenths of a second)
    wPending,     \* items of the current watch result still to be yielded
    wYielded,     \* items yielded to the caller so far
    wEnd          \* how the generator ended: "none" | "return" | "break" |
                  \* "cancelled" | "closed"

loopVars ==
    << wRpc, wSymbols, wPc, wCalls, wFailures, wErrorLogs, wSleepFor,
       wPending, wYielded, wEnd >>

VARIABLES
    \* ---- one unary GetAccount RPC, called with its RPC context ---------
    gVariant,        \* the package whose GetAccount is called
    gPc,             \* "idle" | "fetch_balance" | "fetch_positions" |
                     \* "sleep" | "inner_sleep" | "done"
    gAttempt,        \* loop variable of retry_transient around GetAccount
    gInner,          \* loop variable of retry_transient around GetPositions
    gBalanceCalls,   \* invocations of exchange.fetch_balance
    gPositionsCalls, \* invocations of exchange.fetch_positions
    gAborts,         \* calls of context.abort: <<status, msg>>
    gOutcome         \* [kind |-> "none"] | the value | the raised failure

accountVars ==
    << gVariant, gPc, gAttempt, gInner, gBalanceCalls, gPositionsCalls,
       gAborts, gOutcome >>

VARIABLES
    \* ---- one call of a function wrapped by handle_ccxt_exception alone --
    \* ---- (python-connector)
    hCall,        \* the call: parameter names of func, the value passed
                  \* for each, how many are passed positionally, and
                  \* whether the context's abort raises (grpc.aio) or
                  \* returns (a mock)
    hPc,          \* "idle" | "running" | "done"
    hAborts,      \* calls of abort on the context object: <<status, msg>>
    hLogs,        \* log records of the handler
    hOutcome      \* [kind |-> "none"] | the value | the raised failure

handlerVars == << hCall, hPc, hAborts, hLogs, hOutcome >>

VARIABLES
    \* ---- one BatchPlaceOrders RPC (python_connector) -------------------
    lOrders,      \* request.orders
    lContext,     \* whether an RPC context was passed (tests pass None)
    lPc,          \* "idle" | "native" | "gather" | "done"
    lItems,       \* per request: the task running PlaceOrder(req, context)
    lOutcome      \* [kind |-> "none"] | the response

legacyVars == << lOrders, lContext, lPc, lItems, lOutcome >>

VARIABLES
    \* ---- concurrent SubscribeKlines calls (python-connector), without the
    \* ---- counters of the single call, so that a call can run for ever
    kCall,        \* per call: the body, its producer tasks, the item it
                  \* yielded last, whether the last step overtook a
                  \* blocked producer
    kQueue        \* per queue: the items it holds

callsVars == << kCall, kQueue >>

VARIABLES
    \* ---- market metadata of the connector (python-connector)
    markets_loaded,  \* self._markets_loaded
    market_lock,     \* self._market_lock: the caller that holds it, 0 if free
    ensure,          \* per caller: the RPC it serves and its position in
                     \* _ensure_markets
    loads            \* history: a load_markets call succeeded, one failed,
                     \* one was started after a success

marketVars == << markets_loaded, market_lock, ensure, loads >>

VARIABLES
    \* ---- one BatchCancelOrders RPC (python-connector) ------------------
    cIds,         \* request.order_ids
    cHasNative,   \* exchange.has.get("cancelOrders")
    cPc,          \* "idle" | "native" | "sleep" | "gather" | "done"
    cAttempt,     \* loop variable of retry_transient around the RPC
    cNativeCalls, \* invocations of exchange.cancel_orders
    cItems,       \* per id: the task running _cancel_order_impl
    cLogs,        \* log records
    cAborts,      \* calls of context.abort on the RPC context
    cOutcome      \* [kind |-> "none"] | the response | the raised failure

cancelVars ==
    << cIds, cHasNative, cPc, cAttempt, cNativeCalls, cItems, cLogs, cAborts,
       cOutcome >>

vars ==
    << unaryVars, batchVars, streamVars, cancelVars, loopVars, accountVars,
       legacyVars, callsVars, marketVars, handlerVars >>

NoFetch == [ kind |-> "none" ]

NoOutcome == [ kind |-> "none" ]

NoRequest == [ side |-> "UNSPECIFIED", type |-> "UNSPECIFIED", client_order_id |-> "" ]

IdleUnary ==
    /\ variant = "python-connector"
    /\ request = NoRequest
    /\ hasContext = FALSE
    /\ pc = "idle"
    /\ attempt = 0
    /\ backoff = 0
    /\ last_err = NoExc
    /\ slept = << >>
    /\ createCalls = 0
    /\ fetchCalls = 0
    /\ lastCreate = "none"
    /\ lastFetch = NoFetch
    /\ submissions = << >>
    /\ invocations = 0
    /\ attemptErrs = << >>
    /\ retryRaised = NoExc
    /\ aborts = << >>
    /\ logs = << >>
    /\ outcome = NoOutcome
    /\ nexc = 0

(***************************************************************************)
(* errors.py: the two decorators around a unary RPC                        *)
(***************************************************************************)

LogRec(level, event, e) == [ level |-> level, event |-> event, exc |-> e ]

\* The status the variant's handle_ccxt_exception surfaces for e.
StatusFor(v, e) ==
    IF v = "python-connector" THEN StatusCodeOf(e) ELSE StatusCodeOfLegacy(e)

\* Mutant: every failure is logged as a warning.
HandlerLogWarning(v, e) == << LogRec("warning", "mapped", e) >>

\* The record handle_ccxt_exception writes before aborting: logger.exception
\* for UNKNOWN, logger.warning otherwise (python-connector); python_connector
\* prints the unhandled ones only.
HandlerLog(v, e) ==
    IF StatusFor(v, e) = "UNKNOWN"
    THEN << LogRec("error", "unhandled", e) >>
    ELSE IF v = "python-connector"
         THEN << LogRec("warning", "mapped", e) >>
         ELSE << >>

\* Mutant: the handler treats a cancellation like any other failure.
HandlerCatchesBaseException(e) == IsInstance(e, "BaseException")

\* except Exception as e: if isinstance(e, asyncio.CancelledError): raise
HandlerCatches(e) ==
    IsInstance(e, "Exception") /\ ~IsInstance(e, "CancelledError")

\* The exception e left the wrapped call and reaches handle_ccxt_exception.
\* Caught: map, log, abort when a context was found, re-raise.  Not caught
\* (a cancellation): it leaves the RPC as it is, from the await it hit.
HandleCcxtException(e, lg) ==
    /\ pc' = "done"
    /\ IF HandlerCatches(e)
       THEN /\ logs' = lg \o HandlerLog(variant, e)
            /\ aborts' = IF hasContext
                         THEN Append(aborts, << StatusFor(variant, e), e.msg >>)
                         ELSE aborts
            /\ outcome' = [ kind |-> "raise", exc |-> e,
                            status |-> IF hasContext THEN StatusFor(variant, e)
                                       ELSE "none" ]
       ELSE /\ logs' = lg
            /\ aborts' = aborts
            /\ outcome' = [ kind |-> "cancelled", exc |-> e, status |-> "none",
                            at |-> pc ]

\* Mutant: the wrapper keeps the first failure and raises that one.
RetryFinalRaiseFirst(v, e, last) ==
    IF attemptErrs = << >> THEN e ELSE attemptErrs[1]

\* What leaves retry_transient when the final attempt failed with e:
\* python-connector re-raises e (bare raise), python_connector raises last_err.
RetryFinalRaise(v, e, last) == IF v = "python-connector" THEN e ELSE last

\* Mutant: the loop allows one round more.
RetryExhaustedLate(a) == a = max_retries + 1

\* if attempt == max_retries: raise / break
RetryExhausted(a) == a = max_retries

\* One failed attempt of the wrapped function inside retry_transient: the
\* except clause, then either the backoff sleep or the propagation into
\* handle_ccxt_exception.  lg is the log as the function left it.
FuncRaises(e, lg) ==
    /\ attemptErrs' = Append(attemptErrs, e)
    /\ nexc' = nexc + 1
    /\ IF RetryCaught(e)
       THEN /\ last_err' = e
            /\ IF RetryExhausted(attempt)
               THEN /\ retryRaised' = RetryFinalRaise(variant, e, e)
                    /\ HandleCcxtException(RetryFinalRaise(variant, e, e), lg)
               ELSE /\ logs' = Append(lg, LogRec("warning", "retry", e))
                    /\ pc' = "sleep"
                    /\ UNCHANGED << retryRaised, aborts, outcome >>
       ELSE /\ last_err' = last_err
            /\ retryRaised' = e
            /\ HandleCcxtException(e, lg)

\* The wrapped function returned: both decorators pass the value through.
FuncReturns(order) ==
    /\ outcome' = [ kind |-> "return", order |-> MapOrder(order) ]
    /\ pc' = "done"
    /\ UNCHANGED << attemptErrs, nexc, last_err, retryRaised, aborts, logs >>

\* Mutant: the looked-up order is dropped and the duplicate failure re-raised.
AfterFetchReraise(order) == FuncRaises(MkExc("DuplicateOrderId", nexc), logs)

\* order = await fetch_order(...) succeeded inside the DuplicateOrderId
\* handler: control reaches "return self._map_order(order)".
AfterFetch(order) == FuncReturns(order)

\* except Exception as e: (around the fetch_order call)
FetchFailureCaught(e) == IsInstance(e, "Exception")

\* Mutant: a failed lookup re-raises the duplicate failure that led to it.
LookupFailureKeepsDuplicate(dup, e) == dup

\* logger.error(...); raise  -- inside "except Exception as e": the bare raise
\* re-raises the lookup's failure e, not the DuplicateOrderId being handled.
LookupFailurePropagated(dup, e) == e

\* Mutant: the lookup is made on the first attempt only.
DuplicateRecoverableFirstAttempt(e, r) ==
    IsInstance(e, "DuplicateOrderId") /\ r.client_order_id # "" /\ attempt = 0

\* Mutant: the lookup is made whether or not the request carries a key.
DuplicateRecoverableAnyKey(e, r) == IsInstance(e, "DuplicateOrderId")

\* except ccxt.DuplicateOrderId: if req.client_order_id: (look the order up)
DuplicateRecoverable(e, r) ==
    IsInstance(e, "DuplicateOrderId") /\ r.client_order_id # ""

\* func(*args) is invoked by the retry loop: _place_order_impl runs up to its
\* first await.
InvokeFunc(r) ==
    IF EnumsRejected(variant, r)
    THEN /\ FuncRaises(MkExc("BadRequest", nexc + 1), logs)
         /\ UNCHANGED << createCalls, fetchCalls, lastCreate, lastFetch >>
    ELSE /\ pc' = "create_order"
         /\ createCalls' = createCalls + 1
         /\ lastCreate' = "none"
         /\ lastFetch' = NoFetch
         /\ UNCHANGED << fetchCalls, attemptErrs, nexc, last_err, retryRaised,
                         aborts, logs, outcome >>

(***************************************************************************)
(* Actions of the unary RPC                                                *)
(***************************************************************************)

IdleBatch ==
    /\ bOrders = << >>
    /\ bHasNative = FALSE
    /\ bPc = "idle"
    /\ bNativeCalls = 0
    /\ bNativeErr = NoExc
    /\ bItems = << >>
    /\ bLogs = << >>
    /\ bAborts = << >>
    /\ bReordered = FALSE
    /\ bOutcome = NoOutcome

IdleStream ==
    /\ sVariant = "none"
    /\ sSymbols = << >>
    /\ sPc = "idle"
    /\ sProd = << >>
    /\ sQueue = << >>
    /\ sReceived = << >>
    /\ sEndedBy = "none"

IdleLoop ==
    /\ wRpc = "none"
    /\ wSymbols = << >>
    /\ wPc = "idle"
    /\ wCalls = 0
    /\ wFailures = 0
    /\ wErrorLogs = 0
    /\ wSleepFor = 0
    /\ wPending = 0
    /\ wYielded = 0
    /\ wEnd = "none"

IdleAccount ==
    /\ gVariant = "python-connector"
    /\ gPc = "idle"
    /\ gAttempt = 0
    /\ gInner = 0
    /\ gBalanceCalls = 0
    /\ gPositionsCalls = 0
    /\ gAborts = << >>
    /\ gOutcome = NoOutcome

NoCall == [ names |-> << >>, vals |-> << >>, npos |-> 0, abortRaises |-> FALSE ]

IdleHandler ==
    /\ hCall = NoCall
    /\ hPc = "idle"
    /\ hAborts = << >>
    /\ hLogs = << >>
    /\ hOutcome = NoOutcome

IdleLegacyBatch ==
    /\ lOrders = << >>
    /\ lContext = FALSE
    /\ lPc = "idle"
    /\ lItems = << >>
    /\ lOutcome = NoOutcome

\* The calls that may run at the same time.
CallIds == { 1, 2 }

NoItem == [ call |-> 0, pos |-> 0 ]

IdleCall ==
    [ pc |-> "idle", nsym |-> 0, prod |-> << >>, last |-> NoItem,
      overtook |-> FALSE ]

IdleCalls ==
    /\ kCall = [ c \in CallIds |-> IdleCall ]
    /\ kQueue = [ c \in CallIds |-> << >> ]

\* The tasks that may call _ensure_markets at the same time.
Callers == { 1, 2, 3 }

IdleMarkets ==
    /\ markets_loaded = FALSE
    /\ market_lock = 0
    /\ ensure = [ t \in Callers |-> [ rpc |-> "none", pc |-> "idle" ] ]
    /\ loads = [ succeeded |-> FALSE, failed |-> FALSE, late |-> FALSE ]

IdleCancel ==
    /\ cIds = << >>
    /\ cHasNative = FALSE
    /\ cPc = "idle"
    /\ cAttempt = 0
    /\ cNativeCalls = 0
    /\ cItems = << >>
    /\ cLogs = << >>
    /\ cAborts = << >>
    /\ cOutcome = NoOutcome

\* The connector after construction: no call in progress.
Init ==
    /\ IdleUnary /\ IdleBatch /\ IdleStream /\ IdleCancel /\ IdleLoop
    /\ IdleAccount /\ IdleHandler /\ IdleLegacyBatch /\ IdleCalls
    /\ IdleMarkets

\* The RPC is called with its arguments; retry_transient's wrapper sets
\* backoff and enters its loop.
PlaceOrder(v, r, ctx) ==
    /\ pc = "idle"
    /\ gPc = "idle"
    /\ variant' = v
    /\ request' = r
    /\ hasContext' = ctx
    /\ attempt' = 0
    /\ backoff' = initial_backoff
    /\ pc' = "attempt"
    /\ UNCHANGED << last_err, slept, createCalls, fetchCalls, lastCreate,
                    lastFetch, attemptErrs, retryRaised, aborts, logs, outcome,
                    nexc, invocations, submissions >>

\* One iteration of "for attempt in range(max_retries + 1)": func is invoked.
Attempt ==
    /\ pc = "attempt"
    /\ invocations' = invocations + 1
    /\ InvokeFunc(request)
    /\ UNCHANGED << variant, request, hasContext, attempt, backoff, slept,
                    submissions >>

\* exchange.create_order returns an order: _place_order_impl maps and returns it.
CreateOrderReturns(id) ==
    /\ pc = "create_order"
    /\ lastCreate' = "ok"
    /\ submissions' = Append(submissions, "ok")
    /\ FuncReturns(VenueOrder(id, request.client_order_id))
    /\ UNCHANGED << variant, request, hasContext, attempt, backoff, slept,
                    createCalls, fetchCalls, lastFetch, invocations >>

\* exchange.create_order raises an exception of class c.  DuplicateOrderId
\* with a client_order_id leads to the lookup; everything else leaves
\* _place_order_impl.
CreateOrderRaises(c) ==
    /\ pc = "create_order"
    /\ lastCreate' = c
    /\ submissions' = Append(submissions, c)
    /\ IF DuplicateRecoverable(MkExc(c, nexc + 1), request)
       THEN /\ pc' = "fetch_order"
            /\ fetchCalls' = fetchCalls + 1
            /\ nexc' = nexc + 1
            /\ UNCHANGED << attemptErrs, last_err, retryRaised, aborts, logs,
                            outcome >>
       ELSE /\ FuncRaises(MkExc(c, nexc + 1), logs)
            /\ UNCHANGED fetchCalls
    /\ UNCHANGED << variant, request, hasContext, attempt, backoff, slept,
                    createCalls, lastFetch, invocations >>

\* exchange.fetch_order returns the existing order.
FetchOrderReturns(id) ==
    /\ pc = "fetch_order"
    /\ lastFetch' = [ kind |-> "order", order |-> VenueOrder(id, request.client_order_id) ]
    /\ AfterFetch(VenueOrder(id, request.client_order_id))
    /\ UNCHANGED << variant, request, hasContext, attempt, backoff, slept,
                    createCalls, fetchCalls, lastCreate, invocations,
                    submissions >>

\* exchange.fetch_order raises: the failure is logged and re-raised.
FetchOrderRaises(c) ==
    /\ pc = "fetch_order"
    /\ lastFetch' = [ kind |-> "raise", cls |-> c, exc |-> MkExc(c, nexc + 1) ]
    /\ FuncRaises(LookupFailurePropagated(MkExc("DuplicateOrderId", nexc),
                                          MkExc(c, nexc + 1)),
                  IF FetchFailureCaught(MkExc(c, nexc + 1))
                  THEN Append(logs, LogRec("error", "fetch_failed",
                                           MkExc(c, nexc + 1)))
                  ELSE logs)
    /\ UNCHANGED << variant, request, hasContext, attempt, backoff, slept,
                    createCalls, fetchCalls, lastCreate, invocations,
                    submissions >>

\* Mutant: the backoff grows by initial_backoff after every sleep.
NextBackoffLinear(b) == b + initial_backoff

\* backoff *= 2  # Exponential backoff
NextBackoff(b) == b * 2

\* await asyncio.sleep(backoff) returns; backoff *= 2; next loop iteration.
BackoffElapsed ==
    /\ pc = "sleep"
    /\ slept' = Append(slept, backoff)
    /\ backoff' = NextBackoff(backoff)
    /\ attempt' = attempt + 1
    /\ pc' = "attempt"
    /\ UNCHANGED << variant, request, hasContext, last_err, createCalls,
                    fetchCalls, lastCreate, lastFetch, attemptErrs, retryRaised,
                    aborts, logs, outcome, nexc, invocations, submissions >>

\* The task running the RPC is cancelled while it is suspended in
\* create_order, in fetch_order or in the backoff sleep: CancelledError is
\* raised at that await.  No except clause of _place_order_impl or of
\* retry_transient matches it; raised in the sleep it leaves the retry
\* wrapper from inside its except block.
Cancelled ==
    /\ pc \in { "create_order", "fetch_order", "sleep" }
    /\ IF pc = "sleep"
       THEN /\ retryRaised' = MkExc("CancelledError", nexc + 1)
            /\ nexc' = nexc + 1
            /\ HandleCcxtException(MkExc("CancelledError", nexc + 1), logs)
            /\ UNCHANGED << attemptErrs, last_err >>
       ELSE FuncRaises(MkExc("CancelledError", nexc + 1),
                       IF pc = "fetch_order"
                          /\ FetchFailureCaught(MkExc("CancelledError", nexc + 1))
                       THEN Append(logs, LogRec("error", "fetch_failed",
                                           MkExc("CancelledError", nexc + 1)))
                       ELSE logs)
    /\ UNCHANGED << variant, request, hasContext, attempt, backoff, slept,
                    createCalls, fetchCalls, lastCreate, lastFetch, invocations,
                    submissions >>

(***************************************************************************)
(* binance.py: GetAccount (both packages), an RPC whose body reads the     *)
(* balance and then the positions                                          *)
(***************************************************************************)

\* Classes fetch_balance / fetch_positions raise in the model: a transient
\* one, a permanent one and a non-ccxt one.
AccountErrors == { "RateLimitExceeded", "AuthenticationError", "Exception" }

\* How GetAccount reads the positions: python_connector awaits
\* self.GetPositions(request, context), the RPC with both decorators;
\* python-connector awaits self._get_positions_impl(request), undecorated.
NestedRpcCall(v) == v = "python_connector"

\* What handle_ccxt_exception adds to the abort calls ab for the failure e.
AbortFor(v, e, ab) ==
    IF HandlerCatches(e) THEN Append(ab, << StatusFor(v, e), e.msg >>) ELSE ab

\* The failure e leaves the body of GetAccount, ab being the abort calls made
\* so far: retry_transient sleeps and tries again, or lets it through to
\* handle_ccxt_exception, which aborts and re-raises.
AccountBodyRaises(e, ab) ==
    IF RetryCaught(e) /\ ~RetryExhausted(gAttempt)
    THEN /\ gPc' = "sleep"
         /\ gAborts' = ab
         /\ UNCHANGED gOutcome
    ELSE /\ gPc' = "done"
         /\ gAborts' = AbortFor(gVariant, e, ab)
         /\ gOutcome' = [ kind |-> "raise", exc |-> e,
                          status |-> StatusFor(gVariant, e) ]

\* The RPC is called: the body awaits fetch_balance.
GetAccount(v) ==
    /\ gPc = "idle"
    /\ pc = "idle"
    /\ gVariant' = v
    /\ gPc' = "fetch_balance"
    /\ gBalanceCalls' = gBalanceCalls + 1
    /\ UNCHANGED << gAttempt, gInner, gPositionsCalls, gAborts, gOutcome >>

\* fetch_balance returns: the body goes on to read the positions.
FetchBalanceReturns ==
    /\ gPc = "fetch_balance"
    /\ gPc' = "fetch_positions"
    /\ gInner' = 0
    /\ gPositionsCalls' = gPositionsCalls + 1
    /\ UNCHANGED << gVariant, gAttempt, gBalanceCalls, gAborts, gOutcome >>

\* fetch_balance raises.
FetchBalanceRaises(c) ==
    /\ gPc = "fetch_balance"
    /\ AccountBodyRaises(MkExc(c, gBalanceCalls + gPositionsCalls), gAborts)
    /\ UNCHANGED << gVariant, gAttempt, gInner, gBalanceCalls, gPositionsCalls >>

\* fetch_positions returns: the Account is built and returned.
FetchPositionsReturns ==
    /\ gPc = "fetch_positions"
    /\ gPc' = "done"
    /\ gOutcome' = [ kind |-> "return" ]
    /\ UNCHANGED << gVariant, gAttempt, gInner, gBalanceCalls, gPositionsCalls,
                    gAborts >>

\* fetch_positions raises.  Through the decorated GetPositions the failure
\* first meets that RPC's own retry loop and then its own
\* handle_ccxt_exception, which aborts the shared context and re-raises into
\* the body of GetAccount.
FetchPositionsRaises(c) ==
    /\ gPc = "fetch_positions"
    /\ LET e == MkExc(c, gBalanceCalls + gPositionsCalls)
       IN  IF NestedRpcCall(gVariant)
           THEN IF RetryCaught(e) /\ ~RetryExhausted(gInner)
                THEN /\ gPc' = "inner_sleep"
                     /\ UNCHANGED << gAborts, gOutcome >>
                ELSE AccountBodyRaises(e, AbortFor(gVariant, e, gAborts))
           ELSE AccountBodyRaises(e, gAborts)
    /\ UNCHANGED << gVariant, gAttempt, gInner, gBalanceCalls, gPositionsCalls >>

\* The backoff of GetAccount's retry loop is over: the body runs again.
AccountBackoffElapsed ==
    /\ gPc = "sleep"
    /\ gAttempt' = gAttempt + 1
    /\ gPc' = "fetch_balance"
    /\ gBalanceCalls' = gBalanceCalls + 1
    /\ UNCHANGED << gVariant, gInner, gPositionsCalls, gAborts, gOutcome >>

\* The backoff of the nested GetPositions retry loop is over.
InnerBackoffElapsed ==
    /\ gPc = "inner_sleep"
    /\ gInner' = gInner + 1
    /\ gPc' = "fetch_positions"
    /\ gPositionsCalls' = gPositionsCalls + 1
    /\ UNCHANGED << gVariant, gAttempt, gBalanceCalls, gAborts, gOutcome >>

\* The RPC task is cancelled at one of its awaits: CancelledError passes
\* both decorators.
GetAccountCancelled ==
    /\ gPc \in { "fetch_balance", "fetch_positions", "sleep", "inner_sleep" }
    /\ gPc' = "done"
    /\ gOutcome' = [ kind |-> "cancelled" ]
    /\ UNCHANGED << gVariant, gAttempt, gInner, gBalanceCalls, gPositionsCalls,
                    gAborts >>

\* A step of GetAccount leaves the other calls alone.
OnlyAccount ==
    UNCHANGED << unaryVars, batchVars, streamVars, cancelVars, loopVars,
                 handlerVars,
                 legacyVars,
                 callsVars,
                 marketVars >>

\* A step of the unary call leaves the other calls alone.
OnlyUnary ==
    UNCHANGED << batchVars, streamVars, cancelVars, loopVars, accountVars,
                 handlerVars,
                 legacyVars,
                 callsVars,
                 marketVars >>

NextUnary ==
    \/ \E v \in Variants, r \in Requests, ctx \in BOOLEAN :
          PlaceOrder(v, r, ctx) /\ OnlyUnary
    \/ Attempt /\ OnlyUnary
    \/ \E id \in VenueOrderIds : CreateOrderReturns(id) /\ OnlyUnary
    \/ \E c \in VenueErrors : CreateOrderRaises(c) /\ OnlyUnary
    \/ \E id \in VenueOrderIds : FetchOrderReturns(id) /\ OnlyUnary
    \/ \E c \in VenueErrors : FetchOrderRaises(c) /\ OnlyUnary
    \/ BackoffElapsed /\ OnlyUnary
    \/ Cancelled /\ OnlyUnary
    \/ \E v \in Variants : GetAccount(v) /\ OnlyAccount
    \/ FetchBalanceReturns /\ OnlyAccount
    \/ \E c \in AccountErrors : FetchBalanceRaises(c) /\ OnlyAccount
    \/ FetchPositionsReturns /\ OnlyAccount
    \/ \E c \in AccountErrors : FetchPositionsRaises(c) /\ OnlyAccount
    \/ AccountBackoffElapsed /\ OnlyAccount
    \/ InnerBackoffElapsed /\ OnlyAccount
    \/ GetAccountCancelled /\ OnlyAccount

SpecUnary == Init /\ [][NextUnary]_vars

(***************************************************************************)
(* errors.py: _get_grpc_context and handle_ccxt_exception around any       *)
(* function (python-connector)                                             *)
(***************************************************************************)

\* Parameter lists of the wrapped function (self left out: it has no abort
\* attribute): the usual one, one with a parameter after context, one whose
\* context parameter has another name, one without a context parameter.
Signatures ==
    { << "request", "context" >>, << "request", "context", "extra" >>,
      << "request", "ctx" >>, << "request" >> }

\* Parameter names that are meant to receive the RPC context.
ContextParams == { "context", "ctx" }

\* Values an argument has: an RPC context (it has an abort method), None, or
\* some other object.
HasAbort(v) == v = "ctx"

\* if context: -- None is false, objects are true
Truthy(v) == v # "none"

\* The calls of a function with signature sig: the first npos parameters are
\* passed positionally and the others by keyword; the context parameter
\* receives a context or None.
CallsOf(sig) ==
    { [ names |-> sig,
        vals |-> [ i \in DOMAIN sig |->
                     IF sig[i] \in ContextParams THEN cv ELSE "plain" ],
        npos |-> n,
        abortRaises |-> ar ] :
      n \in 0..Len(sig), cv \in { "ctx", "none" }, ar \in BOOLEAN }

Calls == UNION { CallsOf(sig) : sig \in Signatures }

\* args and kwargs as the wrapper receives them
Args(call) == SubSeq(call.vals, 1, call.npos)
KwNames(call) == { call.names[i] : i \in (call.npos + 1)..Len(call.names) }
KwVal(call, name) ==
    call.vals[CHOOSE i \in (call.npos + 1)..Len(call.names) : call.names[i] = name]

\* sig.bind_partial(*args, **kwargs).arguments restricted to the positional
\* ones: parameter i receives args[i].
BoundPositions(call, name) ==
    { i \in 1..call.npos : call.names[i] = name }

\* Mutant: the context is the last positional argument (args[-1]).
GetGrpcContextLast(call) ==
    IF call.npos > 0 THEN call.vals[call.npos] ELSE "none"

\* _get_grpc_context(func, args, kwargs): the keyword argument context, else
\* the positional argument bound to the parameter named context, else the
\* first positional argument that has a callable abort, else None
GetGrpcContext(call) ==
    IF "context" \in KwNames(call)
    THEN KwVal(call, "context")
    ELSE IF BoundPositions(call, "context") # {}
    THEN call.vals[CHOOSE i \in BoundPositions(call, "context") : TRUE]
    ELSE IF \E i \in 1..call.npos : HasAbort(call.vals[i])
    THEN call.vals[CHOOSE i \in 1..call.npos :
                        /\ HasAbort(call.vals[i])
                        /\ \A j \in 1..(i - 1) : ~HasAbort(call.vals[j])]
    ELSE "none"

\* The wrapped function is called through the decorator.
CallWrapped(call) ==
    /\ hPc = "idle"
    /\ bPc = "idle"
    /\ cPc = "idle"
    /\ hCall' = call
    /\ hPc' = "running"
    /\ UNCHANGED << hAborts, hLogs, hOutcome >>

\* func returns: the wrapper returns its value.
WrappedReturns ==
    /\ hPc = "running"
    /\ hPc' = "done"
    /\ hOutcome' = [ kind |-> "return" ]
    /\ UNCHANGED << hCall, hAborts, hLogs >>

\* func raises e of class c: the handler looks the context up, maps and logs
\* e, awaits context.abort(status_code, str(e)) when the lookup gave a true
\* value, and re-raises e unless the abort itself raised.
WrappedRaises(c) ==
    /\ hPc = "running"
    /\ hPc' = "done"
    /\ LET e == MkExc(c, 1)
           context == GetGrpcContext(hCall)
       IN  IF ~HandlerCatches(e)
           THEN /\ hOutcome' = [ kind |-> "raise", exc |-> e, failure |-> e ]
                /\ UNCHANGED << hAborts, hLogs >>
           ELSE /\ hLogs' = hLogs \o HandlerLog("python-connector", e)
                /\ hAborts' = IF HasAbort(context)
                              THEN Append(hAborts, << StatusCodeOf(e), e.msg >>)
                              ELSE hAborts
                /\ hOutcome' =
                      [ kind |-> "raise", failure |-> e,
                        exc |-> CASE ~Truthy(context) -> e
                                  [] ~HasAbort(context) -> MkExc("AttributeError", 2)
                                  [] hCall.abortRaises -> MkExc("AbortError", 2)
                                  [] OTHER -> e ]
    /\ UNCHANGED hCall

\* A step of the wrapped call leaves the other calls alone.
OnlyHandler ==
    UNCHANGED << unaryVars, batchVars, streamVars, cancelVars, loopVars,
                 accountVars,
                 legacyVars,
                 callsVars,
                 marketVars >>

NextHandler ==
    \/ \E call \in Calls : CallWrapped(call) /\ OnlyHandler
    \/ WrappedReturns /\ OnlyHandler
    \/ \E c \in VenueErrors : WrappedRaises(c) /\ OnlyHandler

SpecHandler == Init /\ [][NextHandler]_vars


(***************************************************************************)
(* Properties of the unary RPC (checked under SpecUnary)                   *)
(***************************************************************************)

UnaryDone == pc = "done"

\* The classes whose kind is transient (RATE_LIMITED or UNAVAILABLE): the
\* transport failures, rate limits included, and exchange-not-available.
TransientClasses ==
    { "NetworkError", "DDoSProtection", "RateLimitExceeded", "RequestTimeout",
      "ExchangeNotAvailable", "OnMaintenance" }

IsTransient(e) == e.cls \in TransientClasses

AllAttemptsTransient ==
    \A i \in DOMAIN attemptErrs : IsTransient(attemptErrs[i])

\* C1: when every attempt of the wrapped operation failed with a transient
\* failure, the operation was attempted exactly max_retries + 1 times and the
\* failure leaving the retry wrapper is the one the last attempt raised.
C1_TransientExhaustion ==
    (UnaryDone /\ outcome.kind = "raise" /\ AllAttemptsTransient)
        => /\ invocations = max_retries + 1
           /\ Len(attemptErrs) = max_retries + 1
           /\ retryRaised = attemptErrs[max_retries + 1]

\* C1 witness: four transient failures in a row, the fourth one propagated;
\* it differs from the first.
C1_Witness ==
    /\ UnaryDone
    /\ outcome.kind = "raise"
    /\ AllAttemptsTransient
    /\ invocations = max_retries + 1
    /\ retryRaised = attemptErrs[max_retries + 1]
    /\ retryRaised # attemptErrs[1]

\* C2: an attempt that fails with a permanent kind is the only attempt made
\* for that failure: it is the last attempt, it left the wrapper at once, no
\* sleep followed it and the function was not invoked again.
C2_PermanentNotRetried ==
    \A i \in DOMAIN attemptErrs :
        ~IsTransient(attemptErrs[i])
            => /\ i = Len(attemptErrs)
               /\ UnaryDone
               /\ retryRaised = attemptErrs[i]
               /\ invocations = i
               /\ Len(slept) = i - 1

\* C2 witness: a permanent failure on the first attempt, with all retries
\* still available, ended the call after one invocation and no sleep.
C2_Witness ==
    /\ UnaryDone
    /\ Len(attemptErrs) = 1
    /\ ~IsTransient(attemptErrs[1])
    /\ createCalls = 1
    /\ attempt = 0
    /\ invocations = 1
    /\ slept = << >>

\* C3: create_order failed with DUPLICATE, the request has a client_order_id
\* and fetch_order returned order O: PlaceOrder returns O (mapped) and
\* context.abort is not called.
C3_DuplicateRecovered ==
    ( /\ UnaryDone
      /\ lastCreate = "DuplicateOrderId"
      /\ request.client_order_id # ""
      /\ lastFetch.kind = "order" )
        => /\ outcome = [ kind |-> "return", order |-> MapOrder(lastFetch.order) ]
           /\ aborts = << >>

\* C3 witness: the recovery happened on a call that has an RPC context.
C3_Witness ==
    /\ UnaryDone
    /\ hasContext
    /\ lastCreate = "DuplicateOrderId"
    /\ request.client_order_id # ""
    /\ lastFetch.kind = "order"
    /\ fetchCalls = 1
    /\ outcome.kind = "return"

\* The fixed status table of the interface, per exception class.
ExpectedStatus(c) ==
    CASE c = "InsufficientFunds"    -> "RESOURCE_EXHAUSTED"
      [] c = "OrderNotFound"        -> "NOT_FOUND"
      [] c = "DuplicateOrderId"     -> "ALREADY_EXISTS"
      [] c = "InvalidOrder"         -> "INVALID_ARGUMENT"
      [] c = "BadRequest"           -> "INVALID_ARGUMENT"
      [] c = "AuthenticationError"  -> "UNAUTHENTICATED"
      [] c = "RateLimitExceeded"    -> "RESOURCE_EXHAUSTED"
      [] c = "NetworkError"         -> "UNAVAILABLE"
      [] c = "DDoSProtection"       -> "UNAVAILABLE"
      [] c = "RequestTimeout"       -> "UNAVAILABLE"
      [] c = "ExchangeNotAvailable" -> "UNAVAILABLE"
      [] c = "OnMaintenance"        -> "UNAVAILABLE"
      [] c = "ExchangeError"        -> "FAILED_PRECONDITION"
      [] c = "NotSupported"         -> "FAILED_PRECONDITION"
      [] OTHER                      -> "UNKNOWN"

\* Both packages agree with the fixed table on every class.
StatusTableMatches ==
    \A c \in ExcClasses :
        /\ StatusCodeOf(MkExc(c, 0)) = ExpectedStatus(c)
        /\ StatusCodeOfLegacy(MkExc(c, 0)) = ExpectedStatus(c)

\* C10: the status mapping is total, single-valued and equal to the fixed
\* table, in both packages; and every failure of a unary RPC that has a
\* context is surfaced by exactly one abort carrying the table's status.
C10_StatusTable ==
    /\ StatusTableMatches
    /\ (UnaryDone /\ outcome.kind = "raise" /\ hasContext)
          => /\ Len(aborts) = 1
             /\ aborts[1] = << ExpectedStatus(retryRaised.cls), retryRaised.msg >>
             /\ outcome.status = ExpectedStatus(retryRaised.cls)

\* C10 witness: a duplicate-id failure without a key surfaced ALREADY_EXISTS,
\* although DuplicateOrderId is also an InvalidOrder and an ExchangeError.
C10_Witness ==
    /\ UnaryDone
    /\ hasContext
    /\ outcome.kind = "raise"
    /\ retryRaised.cls = "DuplicateOrderId"
    /\ aborts = << << "ALREADY_EXISTS", retryRaised.msg >> >>


\* Rows of EXCEPTION_MAP whose class the class c is an instance of.
MatchingRows(c) ==
    { i \in DOMAIN EXCEPTION_MAP : EXCEPTION_MAP[i][1] \in AncestorsOf[c] }

\* The earliest of them.
EarliestRow(c) ==
    CHOOSE i \in MatchingRows(c) : \A j \in MatchingRows(c) : i <= j

\* Per class: the status the earliest matching row assigns, UNKNOWN without
\* a match.
EarliestRowStatusOf ==
    [ c \in ExcClasses |->
        IF MatchingRows(c) = {} THEN "UNKNOWN"
        ELSE EXCEPTION_MAP[EarliestRow(c)][2] ]

EarliestRowStatus(c) == EarliestRowStatusOf[c]

\* Over all classes: the handler's lookup and _map_exception_to_code return
\* the earliest matching row's status, and a class without a row is UNKNOWN
\* and is not caught by the retry loop.
FirstMatchWins ==
    \A c \in ExcClasses :
        /\ StatusCodeOf(MkExc(c, 0)) = EarliestRowStatus(c)
        /\ MapExceptionToCode(MkExc(c, 0)) = CodeValue(EarliestRowStatus(c))
        /\ MatchingRows(c) = {} =>
              /\ StatusCodeOf(MkExc(c, 0)) = "UNKNOWN"
              /\ ~RetryCaught(MkExc(c, 0))

\* C11: classification is first-match over the ordered table: a failure that
\* satisfies several rows gets the status of the earliest matching row only,
\* a failure matching no row is UNKNOWN and not transient; and the status a
\* failed unary RPC surfaces is the earliest matching row's.
C11_FirstMatchWins ==
    /\ FirstMatchWins
    /\ (UnaryDone /\ outcome.kind = "raise" /\ hasContext
            /\ variant = "python-connector")
          => outcome.status = EarliestRowStatus(retryRaised.cls)

\* C11 witness: an exhausted rate-limit failure, which matches the rate-limit
\* row and the later transport row, surfaced with the rate-limit row's status.
C11_Witness ==
    /\ UnaryDone
    /\ hasContext
    /\ variant = "python-connector"
    /\ outcome.kind = "raise"
    /\ retryRaised.cls = "RateLimitExceeded"
    /\ Cardinality(MatchingRows("RateLimitExceeded")) = 2
    /\ outcome.status = "RESOURCE_EXHAUSTED"

\* The classes of the rows whose kind is transient: rate limit (RATE_LIMITED),
\* transport failure and venue offline (UNAVAILABLE).
TransientRowClasses ==
    { "RateLimitExceeded", "NetworkError", "ExchangeNotAvailable" }

\* The classes to which the classification table assigns a transient kind.
ClassifiedTransientClasses ==
    { c \in ExcClasses :
        /\ MatchingRows(c) # {}
        /\ EXCEPTION_MAP[EarliestRow(c)][1] \in TransientRowClasses }

ClassifiedTransient(e) == e.cls \in ClassifiedTransientClasses

\* Over all classes: the retry loop catches exactly the classes the table
\* classifies transient.
RetryAgreesWithTable ==
    \A c \in ExcClasses :
        RetryCaught(MkExc(c, 0)) <=> ClassifiedTransient(MkExc(c, 0))

\* The failure of attempt i left the call: it was the last attempt and it is
\* what the retry wrapper raised.
Surfaced(i) ==
    i = Len(attemptErrs) /\ UnaryDone /\ retryRaised = attemptErrs[i]

\* C12: retry eligibility and classification agree: the failure of an attempt
\* is not surfaced (it is retried) if and only if the table classifies it
\* transient and attempts remain.
C12_RetryMatchesClassification ==
    /\ RetryAgreesWithTable
    /\ \A i \in DOMAIN attemptErrs :
          ~Surfaced(i) <=>
              (ClassifiedTransient(attemptErrs[i]) /\ i <= max_retries)

\* C12 witness: a rate-limit failure (RESOURCE_EXHAUSTED, transient) was
\* retried and the insufficient-funds failure that followed
\* (RESOURCE_EXHAUSTED too, permanent) was surfaced at once.
C12_Witness ==
    /\ UnaryDone
    /\ Len(attemptErrs) = 2
    /\ attemptErrs[1].cls = "RateLimitExceeded"
    /\ attemptErrs[2].cls = "InsufficientFunds"
    /\ slept = << initial_backoff >>
    /\ Surfaced(2)

\* C13: a cancellation observed while the operation awaits the venue or while
\* the retry wrapper sleeps leaves the call at once as a cancellation: the
\* call is over, nothing was attempted or slept after it, context.abort was
\* not called, and no log record is about the cancellation.
C13_CancellationPropagates ==
    (retryRaised.cls = "CancelledError")
        => /\ UnaryDone
           /\ outcome.kind = "cancelled"
           /\ outcome.exc = retryRaised
           /\ aborts = << >>
           /\ \A k \in DOMAIN logs : logs[k].exc.cls # "CancelledError"
           /\ invocations = Len(slept) + 1
           /\ Len(attemptErrs) = invocations
           /\ outcome.at # "sleep" => attemptErrs[invocations] = retryRaised

\* C13 witness: a call with an RPC context was cancelled (a) in the first
\* backoff sleep, (b) in the lookup of the second attempt.
C13_Witness ==
    /\ UnaryDone
    /\ hasContext
    /\ outcome.kind = "cancelled"
    /\ \/ outcome.at = "sleep" /\ invocations = 1 /\ slept = << >>
       \/ outcome.at = "fetch_order" /\ invocations = 2

\* The latest attempt met a duplicate id, looked the order up with the
\* request's key, and the lookup failed.
LookupFailed ==
    /\ lastCreate = "DuplicateOrderId"
    /\ request.client_order_id # ""
    /\ lastFetch.kind = "raise"

\* C14: when the submission fails with DUPLICATE, the key is non-empty and
\* the lookup fails, the failure leaving the attempt is the lookup's, never
\* the duplicate one; when it leaves the call, it is surfaced with the
\* lookup failure's status.
C14_LookupFailurePropagates ==
    LookupFailed
        => /\ attemptErrs[Len(attemptErrs)] = lastFetch.exc
           /\ Surfaced(Len(attemptErrs)) =>
                 /\ outcome.kind = "raise"
                 /\ outcome.exc = lastFetch.exc
                 /\ hasContext =>
                       aborts = << << ExpectedStatus(lastFetch.cls),
                                      lastFetch.exc.msg >> >>

\* C14 witness: the lookup failed with "order not found" and NOT_FOUND, not
\* ALREADY_EXISTS, was surfaced.
C14_Witness ==
    /\ UnaryDone
    /\ hasContext
    /\ LookupFailed
    /\ lastFetch.cls = "OrderNotFound"
    /\ fetchCalls = 1
    /\ outcome.kind = "raise"
    /\ outcome.status = "NOT_FOUND"

\* C15: when the submission fails with DUPLICATE and the request has no
\* client_order_id, no lookup is made, the submission is not repeated, and
\* the duplicate failure itself leaves the call, surfaced as ALREADY_EXISTS.
C15_DuplicateWithoutKey ==
    (lastCreate = "DuplicateOrderId" /\ request.client_order_id = "")
        => /\ UnaryDone
           /\ fetchCalls = 0
           /\ lastFetch = NoFetch
           /\ createCalls = invocations
           /\ Len(slept) = invocations - 1
           /\ outcome.kind = "raise"
           /\ outcome.exc = attemptErrs[Len(attemptErrs)]
           /\ outcome.exc.cls = "DuplicateOrderId"
           /\ retryRaised = outcome.exc
           /\ hasContext =>
                 aborts = << << "ALREADY_EXISTS", outcome.exc.msg >> >>

\* C15 witness: a duplicate failure on the first submission of a request
\* without a key, on a call with an RPC context.
C15_Witness ==
    /\ UnaryDone
    /\ hasContext
    /\ request.client_order_id = ""
    /\ lastCreate = "DuplicateOrderId"
    /\ createCalls = 1
    /\ fetchCalls = 0
    /\ outcome.kind = "raise"
    /\ outcome.status = "ALREADY_EXISTS"


(***************************************************************************)
(* binance.py: BatchPlaceOrders (python-connector)                         *)
(***************************************************************************)

\* Largest batch the model submits.
MaxBatch == 3

\* The request shapes of a batch item: valid with and without a
\* client_order_id, and one whose side is unspecified.
BatchRequests ==
    { [ side |-> "BUY",         type |-> "LIMIT",  client_order_id |-> "c1" ],
      [ side |-> "SELL",        type |-> "MARKET", client_order_id |-> "" ],
      [ side |-> "UNSPECIFIED", type |-> "LIMIT",  client_order_id |-> "" ] }

\* Classes create_order raises in the batch model: a duplicate id, a
\* transient failure and a non-ccxt error.
BatchCreateErrors == { "DuplicateOrderId", "NetworkError", "Exception" }

\* Classes fetch_order raises in the batch model.
BatchFetchErrors == { "OrderNotFound" }

\* Classes create_orders raises in the batch model.
BatchNativeErrors == { "NetworkError", "NotSupported" }

NoResult == [ kind |-> "none" ]

\* A task of the fallback before its first step.
PendingItem ==
    [ pc |-> "pending", result |-> NoResult, createCalls |-> 0,
      fetchCalls |-> 0, logs |-> << >> ]

ItemIndexes == DOMAIN bOrders

\* Serial numbers of the exceptions of item i (validation, create, fetch).
ItemExc(c, i, step) == MkExc(c, 10 * i + step)

\* The id the venue gives the order of item i (created, or found by lookup).
ItemOrderId(i, fetched) ==
    [ isdigit |-> TRUE, n |-> IF fetched THEN 10 + i ELSE i ]

\* An exception left _place_order_impl: the task is done with it.
ItemFailed(it, e, lg) ==
    [ it EXCEPT !.pc = "done", !.result = [ kind |-> "exc", exc |-> e ],
                !.logs = lg ]

\* _place_order_impl returned the mapped order: the task is done with it.
ItemSucceeded(it, order) ==
    [ it EXCEPT !.pc = "done",
                !.result = [ kind |-> "order", order |-> MapOrder(order) ] ]

\* Mutant: only "not supported" failures of create_orders are caught.
NativeFailureCaughtNotSupported(e) == IsInstance(e, "NotSupported")

\* except Exception as e: (around the create_orders call)
NativeFailureCaught(e) == IsInstance(e, "Exception")

\* Mutant: gather without return_exceptions.
ReturnExceptionsOff == FALSE

\* asyncio.gather(*tasks, return_exceptions=True)
ReturnExceptions == TRUE

\* Mutant: the error entry carries the one-based position.
ErrorEntryOneBased(i, e) ==
    [ index |-> i, client_order_id |-> bOrders[i].client_order_id,
      error_message |-> e.msg, code |-> MapExceptionToCode(e) ]

\* exchange_pb2.BatchOrderError(index=i, ...) for the item at position i
\* (positions are 1-based in the model, indexes 0-based in the response)
ErrorEntry(i, e) ==
    [ index |-> i - 1, client_order_id |-> bOrders[i].client_order_id,
      error_message |-> e.msg, code |-> MapExceptionToCode(e) ]

RECURSIVE CollectOrdersNewestFirst(_, _)
\* Mutant: every order is put in front of the ones collected before it.
CollectOrdersNewestFirst(results, i) ==
    IF i > Len(results) THEN << >>
    ELSE IF results[i].kind = "exc" THEN CollectOrdersNewestFirst(results, i + 1)
    ELSE CollectOrdersNewestFirst(results, i + 1) \o << results[i].order >>

RECURSIVE CollectOrders(_, _)
\* response_orders after the loop over results[i..]
CollectOrders(results, i) ==
    IF i > Len(results) THEN << >>
    ELSE IF results[i].kind = "exc" THEN CollectOrders(results, i + 1)
    ELSE << results[i].order >> \o CollectOrders(results, i + 1)

RECURSIVE CollectErrors(_, _)
\* errors after the loop over results[i..]
CollectErrors(results, i) ==
    IF i > Len(results) THEN << >>
    ELSE IF results[i].kind = "exc"
         THEN << ErrorEntry(i, results[i].exc) >> \o CollectErrors(results, i + 1)
    ELSE CollectErrors(results, i + 1)

RECURSIVE CollectErrorLogs(_, _)
\* logger.error("Batch order component failure at index %d") per failed item
CollectErrorLogs(results, i) ==
    IF i > Len(results) THEN << >>
    ELSE IF results[i].kind = "exc"
         THEN << LogRec("error", "component_failure", results[i].exc) >>
              \o CollectErrorLogs(results, i + 1)
    ELSE CollectErrorLogs(results, i + 1)

\* Mutant: the flag is never cleared.
AllSuccessNeverCleared(results) == TRUE

\* all_success = True before the loop, set to False at every failed result
AllSuccess(results) == \A i \in DOMAIN results : results[i].kind # "exc"

\* The response the fallback assembles from the gathered results.
FallbackResponse(results) ==
    [ kind        |-> "return",
      path        |-> "fallback",
      orders      |-> CollectOrders(results, 1),
      errors      |-> CollectErrors(results, 1),
      all_success |-> AllSuccess(results) ]

\* Mutant: only the first venue order is put in the response.
NativeResponseFirstOnly(orders) ==
    [ kind        |-> "return",
      path        |-> "native",
      orders      |-> << MapOrder(orders[1]) >>,
      errors      |-> << >>,
      all_success |-> TRUE ]

\* The response of the native path: every venue order mapped, no errors.
NativeResponse(orders) ==
    [ kind        |-> "return",
      path        |-> "native",
      orders      |-> [ i \in DOMAIN orders |-> MapOrder(orders[i]) ],
      errors      |-> << >>,
      all_success |-> TRUE ]

\* An exception leaves the body of BatchPlaceOrders: retry_transient does
\* not catch it unless it is transient, handle_ccxt_exception aborts the RPC
\* unless it is a cancellation.
BatchBodyRaises(e, lg) ==
    /\ bPc' = "done"
    /\ IF HandlerCatches(e)
       THEN /\ bLogs' = lg \o HandlerLog("python-connector", e)
            /\ bAborts' = Append(bAborts, << StatusCodeOf(e), e.msg >>)
            /\ bOutcome' = [ kind |-> "raise", exc |-> e,
                             status |-> StatusCodeOf(e) ]
       ELSE /\ bLogs' = lg
            /\ bAborts' = bAborts
            /\ bOutcome' = [ kind |-> "cancelled", exc |-> e, at |-> bPc ]

\* Mutant: the native path is tried whatever the capability flag says.
UseNativePathAlways(has) == TRUE

\* if self.exchange.has.get("createOrders"):   (cancelOrders likewise)
UseNativePath(has) == has

\* First request of the batch whose enum conversion raises (0 when none):
\* the loop that builds ccxt_orders stops there.
FirstInvalid(orders) ==
    IF \E i \in DOMAIN orders : RequestInvalid(orders[i])
    THEN CHOOSE i \in DOMAIN orders :
            /\ RequestInvalid(orders[i])
            /\ \A j \in DOMAIN orders : RequestInvalid(orders[j]) => i <= j
    ELSE 0

\* The fallback is entered: one coroutine per request, handed to gather.
StartFallback(orders) ==
    /\ bItems' = [ i \in DOMAIN orders |-> PendingItem ]
    /\ bPc' = "gather"

\* The RPC is called.  With the native capability the order list is built
\* and create_orders awaited; without it the fallback starts at once.
BatchPlaceOrders(orders, native) ==
    /\ bPc = "idle"
    /\ cPc = "idle"
    /\ hPc = "idle"
    /\ bOrders' = orders
    /\ bHasNative' = native
    /\ bReordered' = FALSE
    /\ IF UseNativePath(native)
       THEN IF FirstInvalid(orders) # 0
            THEN /\ BatchBodyRaises(MkExc("BadRequest", 10 * FirstInvalid(orders)), bLogs)
                 /\ UNCHANGED << bNativeCalls, bNativeErr, bItems >>
            ELSE /\ bPc' = "native"
                 /\ bNativeCalls' = bNativeCalls + 1
                 /\ UNCHANGED << bNativeErr, bItems, bLogs, bAborts, bOutcome >>
       ELSE /\ StartFallback(orders)
            /\ UNCHANGED << bNativeCalls, bNativeErr, bLogs, bAborts, bOutcome >>

\* exchange.create_orders returns one order per request, in request order.
NativeReturns ==
    /\ bPc = "native"
    /\ bOutcome' = NativeResponse(
           [ i \in ItemIndexes |->
               VenueOrder(ItemOrderId(i, FALSE), bOrders[i].client_order_id) ])
    /\ bPc' = "done"
    /\ UNCHANGED << bOrders, bHasNative, bNativeCalls, bNativeErr, bItems,
                    bLogs, bAborts, bReordered >>

\* exchange.create_orders raises: logged as a warning, then the fallback.
NativeRaises(c) ==
    /\ bPc = "native"
    /\ bNativeErr' = MkExc(c, 99)
    /\ IF NativeFailureCaught(MkExc(c, 99))
       THEN /\ bLogs' = Append(bLogs, LogRec("warning", "native_failed", MkExc(c, 99)))
            /\ StartFallback(bOrders)
            /\ UNCHANGED << bAborts, bOutcome >>
       ELSE /\ BatchBodyRaises(MkExc(c, 99), bLogs)
            /\ UNCHANGED bItems
    /\ UNCHANGED << bOrders, bHasNative, bNativeCalls, bReordered >>

\* The step finishes the task of item i while the task of an earlier item is
\* still running: the tasks complete in an order other than the request's.
Overtakes(i) ==
    /\ bItems'[i].pc = "done"
    /\ \E j \in DOMAIN bItems : j < i /\ bItems[j].pc # "done"

\* The task of item i runs to its first await: the enum conversions, then
\* the call of exchange.create_order.
ItemStart(i) ==
    /\ bPc = "gather"
    /\ bItems[i].pc = "pending"
    /\ bItems' =
         [ bItems EXCEPT ![i] =
             IF RequestInvalid(bOrders[i])
             THEN ItemFailed(@, ItemExc("BadRequest", i, 0), @.logs)
             ELSE [ @ EXCEPT !.pc = "create_order", !.createCalls = @ + 1 ] ]
    /\ bReordered' = (bReordered \/ Overtakes(i))
    /\ UNCHANGED << bOrders, bHasNative, bPc, bNativeCalls, bNativeErr, bLogs,
                    bAborts, bOutcome >>

\* exchange.create_order of item i returns.
ItemCreateReturns(i) ==
    /\ bPc = "gather"
    /\ bItems[i].pc = "create_order"
    /\ bItems' =
         [ bItems EXCEPT ![i] =
             ItemSucceeded(@, VenueOrder(ItemOrderId(i, FALSE),
                                         bOrders[i].client_order_id)) ]
    /\ bReordered' = (bReordered \/ Overtakes(i))
    /\ UNCHANGED << bOrders, bHasNative, bPc, bNativeCalls, bNativeErr, bLogs,
                    bAborts, bOutcome >>

\* exchange.create_order of item i raises.
ItemCreateRaises(i, c) ==
    /\ bPc = "gather"
    /\ bItems[i].pc = "create_order"
    /\ bItems' =
         [ bItems EXCEPT ![i] =
             IF DuplicateRecoverable(ItemExc(c, i, 1), bOrders[i])
             THEN [ @ EXCEPT !.pc = "fetch_order", !.fetchCalls = @ + 1 ]
             ELSE ItemFailed(@, ItemExc(c, i, 1), @.logs) ]
    /\ bReordered' = (bReordered \/ Overtakes(i))
    /\ UNCHANGED << bOrders, bHasNative, bPc, bNativeCalls, bNativeErr, bLogs,
                    bAborts, bOutcome >>

\* exchange.fetch_order of item i returns the existing order.
ItemFetchReturns(i) ==
    /\ bPc = "gather"
    /\ bItems[i].pc = "fetch_order"
    /\ bItems' =
         [ bItems EXCEPT ![i] =
             ItemSucceeded(@, VenueOrder(ItemOrderId(i, TRUE),
                                         bOrders[i].client_order_id)) ]
    /\ bReordered' = (bReordered \/ Overtakes(i))
    /\ UNCHANGED << bOrders, bHasNative, bPc, bNativeCalls, bNativeErr, bLogs,
                    bAborts, bOutcome >>

\* exchange.fetch_order of item i raises: logged and re-raised.
ItemFetchRaises(i, c) ==
    /\ bPc = "gather"
    /\ bItems[i].pc = "fetch_order"
    /\ bItems' =
         [ bItems EXCEPT ![i] =
             ItemFailed(@, ItemExc(c, i, 2),
                        Append(@.logs, LogRec("error", "fetch_failed",
                                              ItemExc(c, i, 2)))) ]
    /\ bReordered' = (bReordered \/ Overtakes(i))
    /\ UNCHANGED << bOrders, bHasNative, bPc, bNativeCalls, bNativeErr, bLogs,
                    bAborts, bOutcome >>

\* The results of the tasks, in task (request) order.
GatherResults == [ i \in ItemIndexes |-> bItems[i].result ]

\* First failed result in request order (0 when none).
FirstFailure(results) ==
    IF \E i \in DOMAIN results : results[i].kind = "exc"
    THEN CHOOSE i \in DOMAIN results :
            /\ results[i].kind = "exc"
            /\ \A j \in DOMAIN results : results[j].kind = "exc" => i <= j
    ELSE 0

\* Every task is done: gather returns the result list and the response is
\* assembled.
FallbackDone ==
    /\ bPc = "gather"
    /\ \A i \in ItemIndexes : bItems[i].pc = "done"
    /\ IF ~ReturnExceptions /\ FirstFailure(GatherResults) # 0
       THEN BatchBodyRaises(GatherResults[FirstFailure(GatherResults)].exc, bLogs)
       ELSE /\ bOutcome' = FallbackResponse(GatherResults)
            /\ bLogs' = bLogs \o CollectErrorLogs(GatherResults, 1)
            /\ bPc' = "done"
            /\ UNCHANGED bAborts
    /\ UNCHANGED << bOrders, bHasNative, bNativeCalls, bNativeErr, bItems,
                    bReordered >>

\* Mutant: a cancelled gather hands back the results it has.
GatherSwallowsCancel == FALSE

\* Cancelling the task that awaits asyncio.gather cancels every child that
\* is not done and raises CancelledError at the await, return_exceptions or
\* not.
GatherPropagatesCancel == TRUE

\* The task of an item is cancelled at the await it is suspended in (or
\* before it ran at all).
CancelItem(it) ==
    IF it.pc = "done" THEN it
    ELSE [ it EXCEPT !.pc = "cancelled", !.result = [ kind |-> "cancelled" ] ]

\* The results of the tasks that ran to completion.
CompletedResults(items) ==
    SelectSeq([ i \in DOMAIN items |-> items[i].result ],
              LAMBDA r : r.kind \notin { "none", "cancelled" })

\* The task running the RPC is cancelled while it awaits create_orders or
\* the gather of the fallback.  "except Exception" around create_orders
\* does not match CancelledError.
BatchCancelled ==
    /\ bPc \in { "native", "gather" }
    /\ IF bPc = "native" /\ NativeFailureCaught(MkExc("CancelledError", 98))
       THEN /\ bLogs' = Append(bLogs, LogRec("warning", "native_failed",
                                             MkExc("CancelledError", 98)))
            /\ StartFallback(bOrders)
            /\ UNCHANGED << bAborts, bOutcome >>
       ELSE /\ bItems' = [ i \in DOMAIN bItems |-> CancelItem(bItems[i]) ]
            /\ IF bPc = "gather" /\ ~GatherPropagatesCancel
               THEN /\ bOutcome' = FallbackResponse(CompletedResults(bItems))
                    /\ bPc' = "done"
                    /\ UNCHANGED << bLogs, bAborts >>
               ELSE BatchBodyRaises(MkExc("CancelledError", 98), bLogs)
    /\ UNCHANGED << bOrders, bHasNative, bNativeCalls, bNativeErr, bReordered >>

(***************************************************************************)
(* binance.py: BatchCancelOrders (python-connector)                        *)
(***************************************************************************)

\* Classes cancel_orders and cancel_order raise in the model: a permanent
\* failure and a transient one.
CancelErrors == { "OrderNotFound", "NetworkError" }

\* request.order_ids: 1..MaxBatch order ids.
OrderIdLists == { [ i \in 1..k |-> 100 + i ] : k \in 1..MaxBatch }

\* A task of the cancel fallback before its first step.
PendingCancel == [ pc |-> "pending", result |-> NoResult, calls |-> 0 ]

\* exchange_pb2.BatchOrderError(index=i, error_message=..., code=...)
CancelErrorEntry(i, e) ==
    [ index |-> i - 1, error_message |-> e.msg, code |-> MapExceptionToCode(e) ]

RECURSIVE CollectCancelErrors(_, _)
\* errors after the loop over results[i..]
CollectCancelErrors(results, i) ==
    IF i > Len(results) THEN << >>
    ELSE IF results[i].kind = "exc"
         THEN << CancelErrorEntry(i, results[i].exc) >>
              \o CollectCancelErrors(results, i + 1)
    ELSE CollectCancelErrors(results, i + 1)

\* BatchCancelOrdersResponse(errors=errors) of the fallback
CancelFallbackResponse(results) ==
    [ kind |-> "return", path |-> "fallback",
      errors |-> CollectCancelErrors(results, 1) ]

\* BatchCancelOrdersResponse() of the native path
CancelNativeResponse ==
    [ kind |-> "return", path |-> "native", errors |-> << >> ]

\* An exception leaves the body of BatchCancelOrders: retry_transient sleeps
\* and runs the body again when it is transient and attempts remain;
\* otherwise handle_ccxt_exception aborts the RPC, unless it is a
\* cancellation.
CancelBodyRaises(e, lg) ==
    IF RetryCaught(e) /\ ~RetryExhausted(cAttempt)
    THEN /\ cLogs' = Append(lg, LogRec("warning", "retry", e))
         /\ cPc' = "sleep"
         /\ UNCHANGED << cAborts, cOutcome >>
    ELSE /\ cPc' = "done"
         /\ IF HandlerCatches(e)
            THEN /\ cLogs' = lg \o HandlerLog("python-connector", e)
                 /\ cAborts' = Append(cAborts, << StatusCodeOf(e), e.msg >>)
                 /\ cOutcome' = [ kind |-> "raise", exc |-> e,
                                  status |-> StatusCodeOf(e) ]
            ELSE /\ cLogs' = lg
                 /\ cAborts' = cAborts
                 /\ cOutcome' = [ kind |-> "cancelled", exc |-> e, at |-> cPc ]

\* The body of BatchCancelOrders up to its first await: cancel_orders with
\* the native capability, the gather of one task per id without it.
StartCancelBody(ids, native) ==
    IF UseNativePath(native)
    THEN /\ cPc' = "native"
         /\ cNativeCalls' = cNativeCalls + 1
         /\ cItems' = << >>
    ELSE /\ cPc' = "gather"
         /\ cItems' = [ i \in DOMAIN ids |-> PendingCancel ]
         /\ UNCHANGED cNativeCalls

\* The RPC is called.
BatchCancelOrders(ids, native) ==
    /\ cPc = "idle"
    /\ bPc = "idle"
    /\ hPc = "idle"
    /\ cIds' = ids
    /\ cHasNative' = native
    /\ cAttempt' = 0
    /\ StartCancelBody(ids, native)
    /\ UNCHANGED << cLogs, cAborts, cOutcome >>

\* exchange.cancel_orders returns: the empty response is returned.
CancelNativeReturns ==
    /\ cPc = "native"
    /\ cOutcome' = CancelNativeResponse
    /\ cPc' = "done"
    /\ UNCHANGED << cIds, cHasNative, cAttempt, cNativeCalls, cItems, cLogs,
                    cAborts >>

\* exchange.cancel_orders raises: nothing in the body catches it.
CancelNativeRaises(c) ==
    /\ cPc = "native"
    /\ CancelBodyRaises(MkExc(c, 90 + cAttempt), cLogs)
    /\ UNCHANGED << cIds, cHasNative, cAttempt, cNativeCalls, cItems >>

\* The backoff sleep of retry_transient returns: the body runs again.
CancelBackoffElapsed ==
    /\ cPc = "sleep"
    /\ cAttempt' = cAttempt + 1
    /\ StartCancelBody(cIds, cHasNative)
    /\ UNCHANGED << cIds, cHasNative, cLogs, cAborts, cOutcome >>

\* The task of id i runs to its await of exchange.cancel_order.
CancelItemStart(i) ==
    /\ cPc = "gather"
    /\ cItems[i].pc = "pending"
    /\ cItems' = [ cItems EXCEPT ![i] =
                     [ @ EXCEPT !.pc = "cancel_order", !.calls = @ + 1 ] ]
    /\ UNCHANGED << cIds, cHasNative, cPc, cAttempt, cNativeCalls, cLogs,
                    cAborts, cOutcome >>

\* exchange.cancel_order of id i returns.
CancelItemReturns(i) ==
    /\ cPc = "gather"
    /\ cItems[i].pc = "cancel_order"
    /\ cItems' = [ cItems EXCEPT ![i] =
                     [ @ EXCEPT !.pc = "done", !.result = [ kind |-> "ok" ] ] ]
    /\ UNCHANGED << cIds, cHasNative, cPc, cAttempt, cNativeCalls, cLogs,
                    cAborts, cOutcome >>

\* exchange.cancel_order of id i raises.
CancelItemRaises(i, c) ==
    /\ cPc = "gather"
    /\ cItems[i].pc = "cancel_order"
    /\ cItems' = [ cItems EXCEPT ![i] =
                     [ @ EXCEPT !.pc = "done",
                                !.result = [ kind |-> "exc",
                                             exc |-> MkExc(c, 10 * i + 1) ] ] ]
    /\ UNCHANGED << cIds, cHasNative, cPc, cAttempt, cNativeCalls, cLogs,
                    cAborts, cOutcome >>

\* The results of the cancel tasks, in task (request) order.
CancelResults == [ i \in DOMAIN cItems |-> cItems[i].result ]

\* Every task is done: gather returns and the response is assembled.
CancelFallbackDone ==
    /\ cPc = "gather"
    /\ \A i \in DOMAIN cItems : cItems[i].pc = "done"
    /\ IF ~ReturnExceptions /\ FirstFailure(CancelResults) # 0
       THEN CancelBodyRaises(CancelResults[FirstFailure(CancelResults)].exc, cLogs)
       ELSE /\ cOutcome' = CancelFallbackResponse(CancelResults)
            /\ cLogs' = cLogs \o CollectErrorLogs(CancelResults, 1)
            /\ cPc' = "done"
            /\ UNCHANGED cAborts
    /\ UNCHANGED << cIds, cHasNative, cAttempt, cNativeCalls, cItems >>

\* The task running the RPC is cancelled while it awaits cancel_orders, the
\* backoff sleep or the gather of the fallback.
BatchCancelCancelled ==
    /\ cPc \in { "native", "sleep", "gather" }
    /\ cItems' = [ i \in DOMAIN cItems |-> CancelItem(cItems[i]) ]
    /\ IF cPc = "gather" /\ ~GatherPropagatesCancel
       THEN /\ cOutcome' = CancelFallbackResponse(CompletedResults(cItems))
            /\ cPc' = "done"
            /\ UNCHANGED << cLogs, cAborts >>
       ELSE CancelBodyRaises(MkExc("CancelledError", 98), cLogs)
    /\ UNCHANGED << cIds, cHasNative, cAttempt, cNativeCalls >>

\* A step of the batch cancel call leaves the other calls alone.
OnlyBatchCancel ==
    UNCHANGED << unaryVars, batchVars, streamVars, loopVars, accountVars,
                 handlerVars,
                 legacyVars,
                 callsVars,
                 marketVars >>

\* Batches of 1..MaxBatch requests.
Batches ==
    UNION { [ 1..k -> BatchRequests ] : k \in 1..MaxBatch }

\* A step of the batch call leaves the other calls alone.
OnlyBatch ==
    UNCHANGED << unaryVars, streamVars, cancelVars, loopVars, accountVars,
                 handlerVars,
                 legacyVars,
                 callsVars,
                 marketVars >>

NextBatch ==
    \/ \E orders \in Batches, native \in BOOLEAN :
          BatchPlaceOrders(orders, native) /\ OnlyBatch
    \/ NativeReturns /\ OnlyBatch
    \/ \E c \in BatchNativeErrors : NativeRaises(c) /\ OnlyBatch
    \/ \E i \in ItemIndexes : ItemStart(i) /\ OnlyBatch
    \/ \E i \in ItemIndexes : ItemCreateReturns(i) /\ OnlyBatch
    \/ \E i \in ItemIndexes, c \in BatchCreateErrors :
          ItemCreateRaises(i, c) /\ OnlyBatch
    \/ \E i \in ItemIndexes : ItemFetchReturns(i) /\ OnlyBatch
    \/ \E i \in ItemIndexes, c \in BatchFetchErrors :
          ItemFetchRaises(i, c) /\ OnlyBatch
    \/ FallbackDone /\ OnlyBatch
    \/ BatchCancelled /\ OnlyBatch
    \/ \E ids \in OrderIdLists, native \in BOOLEAN :
          BatchCancelOrders(ids, native) /\ OnlyBatchCancel
    \/ CancelNativeReturns /\ OnlyBatchCancel
    \/ \E c \in CancelErrors : CancelNativeRaises(c) /\ OnlyBatchCancel
    \/ CancelBackoffElapsed /\ OnlyBatchCancel
    \/ \E i \in DOMAIN cItems : CancelItemStart(i) /\ OnlyBatchCancel
    \/ \E i \in DOMAIN cItems : CancelItemReturns(i) /\ OnlyBatchCancel
    \/ \E i \in DOMAIN cItems, c \in CancelErrors :
          CancelItemRaises(i, c) /\ OnlyBatchCancel
    \/ CancelFallbackDone /\ OnlyBatchCancel
    \/ BatchCancelCancelled /\ OnlyBatchCancel

\* The batch RPCs and calls through handle_ccxt_exception alone, one call at
\* a time: every way a failure is surfaced with a status.
NextSurface == NextBatch \/ NextHandler

SpecSurface == Init /\ [][NextSurface]_vars

SpecBatch == Init /\ [][NextBatch]_vars


(***************************************************************************)
(* Properties of BatchPlaceOrders (checked under SpecBatch)                *)
(***************************************************************************)

BatchDone == bPc = "done"

\* The call was answered by the fallback path.
FallbackAnswered ==
    BatchDone /\ bOutcome.kind = "return" /\ bOutcome.path = "fallback"

\* Positions of the items whose operation failed / succeeded.
FailedItems == { i \in DOMAIN bItems : bItems[i].result.kind = "exc" }

SucceededItems == { i \in DOMAIN bItems : bItems[i].result.kind = "order" }

\* The order of item i is one of the response's orders.
OrderPresent(i) ==
    \E k \in DOMAIN bOutcome.orders : bOutcome.orders[k] = bItems[i].result.order

\* C4: a batch of K items answered by the fallback in which exactly one item,
\* at position i, failed: K result entries (K-1 orders and one error),
\* all_success false, the error carries the 0-based index of position i and
\* each of the other K-1 items is present as an order.
C4_SingleFailure ==
    (FallbackAnswered /\ Cardinality(FailedItems) = 1)
        => LET i == CHOOSE x \in FailedItems : TRUE
               K == Len(bOrders)
           IN  /\ Len(bOutcome.orders) + Len(bOutcome.errors) = K
               /\ Len(bOutcome.orders) = K - 1
               /\ Len(bOutcome.errors) = 1
               /\ bOutcome.all_success = FALSE
               /\ bOutcome.errors[1].index = i - 1
               /\ \A j \in DOMAIN bItems : j # i => OrderPresent(j)

\* C4 witness: three items, the middle one failed, index 1 reported.
C4_Witness ==
    /\ FallbackAnswered
    /\ Len(bOrders) = 3
    /\ FailedItems = { 2 }
    /\ Len(bOutcome.orders) = 2
    /\ bOutcome.errors[1].index = 1

\* C5: in the fallback no item failure aborts the RPC or makes it raise, and
\* when the call ends uncancelled every item has run to completion: each valid item's
\* venue operation was started, and every item that succeeded has its order
\* in the response, whatever subset of the items failed.
C5_ItemIsolation ==
    (bItems # << >>)
        => /\ bAborts = << >>
           /\ bOutcome.kind # "raise"
           /\ (BatchDone /\ bOutcome.kind # "cancelled") =>
                /\ FallbackAnswered
                /\ \A i \in DOMAIN bItems :
                      /\ bItems[i].pc = "done"
                      /\ ~RequestInvalid(bOrders[i]) => bItems[i].createCalls = 1
                      /\ i \in SucceededItems => OrderPresent(i)
                      /\ i \in FailedItems =>
                            \E k \in DOMAIN bOutcome.errors :
                                bOutcome.errors[k].index = i - 1

\* C5 witness: first and last of three items failed at the venue, the middle
\* one succeeded and is in the response.
C5_Witness ==
    /\ FallbackAnswered
    /\ Len(bOrders) = 3
    /\ FailedItems = { 1, 3 }
    /\ bItems[1].createCalls = 1
    /\ bItems[3].createCalls = 1
    /\ OrderPresent(2)
    /\ bAborts = << >>

\* The item whose order is o.
ItemOfOrder(o) ==
    CHOOSE i \in DOMAIN bItems : bItems[i].result = [ kind |-> "order", order |-> o ]

\* The response holds one entry per item, orders and errors each in
\* increasing original index.
ResponseComplete ==
    /\ Len(bOutcome.orders) + Len(bOutcome.errors) = Len(bOrders)
    /\ \A k \in DOMAIN bOutcome.orders :
          ItemOfOrder(bOutcome.orders[k]) \in SucceededItems
    /\ \A k1, k2 \in DOMAIN bOutcome.orders :
          k1 < k2 => ItemOfOrder(bOutcome.orders[k1]) < ItemOfOrder(bOutcome.orders[k2])
    /\ \A k \in DOMAIN bOutcome.errors : bOutcome.errors[k].index + 1 \in FailedItems
    /\ \A k1, k2 \in DOMAIN bOutcome.errors :
          k1 < k2 => bOutcome.errors[k1].index < bOutcome.errors[k2].index

\* C9: the native capability is advertised and the create_orders call
\* raised: the RPC still returns (unless it is cancelled), every item was
\* executed individually and the response is complete and index-ordered.
C9_NativeFailureFallsBack ==
    (BatchDone /\ bNativeErr # NoExc /\ bOutcome.kind # "cancelled")
        => /\ bHasNative
           /\ bNativeCalls = 1
           /\ FallbackAnswered
           /\ bAborts = << >>
           /\ \A i \in DOMAIN bOrders : bItems[i].createCalls = 1
           /\ ResponseComplete

\* C9 witness: create_orders raised a transient failure; the fallback then
\* answered three items, one of them with an error.
C9_Witness ==
    /\ BatchDone
    /\ bNativeErr.cls = "NetworkError"
    /\ FallbackAnswered
    /\ Len(bOrders) = 3
    /\ Len(bOutcome.errors) = 1
    /\ Len(bOutcome.orders) = 2

\* The call returned a response.
BatchAnswered == BatchDone /\ bOutcome.kind = "return"

SomeItemInvalid == \E i \in DOMAIN bOrders : RequestInvalid(bOrders[i])

\* C18 as stated: BatchPlaceOrders returns a response - it neither raises nor
\* aborts the RPC - in every execution in which it is not cancelled, whatever
\* the items are and whatever the capability flag says.
C18_AlwaysReturns ==
    (BatchDone /\ bOutcome.kind # "cancelled")
        => /\ bOutcome.kind = "return"
           /\ bAborts = << >>

\* C18, what BatchPlaceOrders does: an uncancelled call returns a response
\* unless the native capability is advertised and some item is invalid; then
\* the enum conversion raises BadRequest while the native order list is
\* built, before any venue call and outside the try, and the RPC is aborted
\* with INVALID_ARGUMENT.
C18_ReturnsUnlessNativeInvalid ==
    (BatchDone /\ bOutcome.kind # "cancelled")
        => IF bHasNative /\ SomeItemInvalid
           THEN /\ bOutcome.kind = "raise"
                /\ bOutcome.exc.cls = "BadRequest"
                /\ bAborts = << << "INVALID_ARGUMENT", bOutcome.exc.msg >> >>
                /\ bNativeCalls = 0
                /\ bItems = << >>
           ELSE /\ bOutcome.kind = "return"
                /\ bAborts = << >>

\* C18 witness: a batch of three with the native capability whose last item
\* has no side: the whole call was aborted, nothing was submitted.
C18_Witness ==
    /\ BatchDone
    /\ bHasNative
    /\ Len(bOrders) = 3
    /\ ~RequestInvalid(bOrders[1])
    /\ ~RequestInvalid(bOrders[2])
    /\ bOrders[3].side = "UNSPECIFIED"
    /\ bOutcome.kind = "raise"
    /\ bAborts # << >>

\* No task of the sequence is still in flight.
NoneInFlight(items) ==
    \A i \in DOMAIN items : items[i].pc \in { "done", "cancelled" }

\* C19: a batch call (place or cancel) cancelled while its fallback items are
\* in flight ends with the cancellation: every item that was not done is
\* cancelled, no item stays in flight, no response is returned and the RPC
\* is not aborted.
C19_BatchCancellation ==
    /\ (\E i \in DOMAIN bItems : bItems[i].pc = "cancelled")
          => /\ BatchDone
             /\ bOutcome.kind = "cancelled"
             /\ bAborts = << >>
             /\ NoneInFlight(bItems)
    /\ (bOutcome.kind = "cancelled") => NoneInFlight(bItems)
    /\ (\E i \in DOMAIN cItems : cItems[i].pc = "cancelled")
          => /\ cPc = "done"
             /\ cOutcome.kind = "cancelled"
             /\ cAborts = << >>
             /\ NoneInFlight(cItems)
    /\ (cOutcome.kind = "cancelled") => NoneInFlight(cItems)

\* C19 witness: of three items the first had completed with an order, the
\* second was awaiting the venue and the third had not started when the call
\* was cancelled.
C19_Witness ==
    /\ BatchDone
    /\ bOutcome.kind = "cancelled"
    /\ Len(bItems) = 3
    /\ bItems[1].result.kind = "order"
    /\ bItems[2].pc = "cancelled"
    /\ bItems[2].createCalls = 1
    /\ bItems[3].pc = "cancelled"
    /\ bItems[3].createCalls = 0

\* C20: without the native capability the native primitive is never invoked
\* during the call (create_orders for BatchPlaceOrders, cancel_orders for
\* BatchCancelOrders), the fallback starts at once, and every item is run
\* through its single-item operation.
C20_NoCapabilityNoNativeCall ==
    /\ (bPc # "idle" /\ ~bHasNative)
          => /\ bNativeCalls = 0
             /\ Len(bItems) = Len(bOrders)
             /\ BatchAnswered =>
                   /\ bOutcome.path = "fallback"
                   /\ \A i \in DOMAIN bItems :
                         /\ bItems[i].pc = "done"
                         /\ ~RequestInvalid(bOrders[i]) => bItems[i].createCalls = 1
    /\ (cPc # "idle" /\ ~cHasNative)
          => /\ cNativeCalls = 0
             /\ Len(cItems) = Len(cIds)
             /\ (cPc = "done" /\ cOutcome.kind = "return") =>
                   /\ cOutcome.path = "fallback"
                   /\ \A i \in DOMAIN cItems :
                         cItems[i].pc = "done" /\ cItems[i].calls = 1

\* C20 witness: BatchCancelOrders without cancelOrders answered three ids,
\* each through one cancel_order call, one of which failed.
C20_Witness ==
    /\ cPc = "done"
    /\ ~cHasNative
    /\ cNativeCalls = 0
    /\ Len(cIds) = 3
    /\ \A i \in DOMAIN cItems : cItems[i].calls = 1
    /\ cOutcome.kind = "return"
    /\ Len(cOutcome.errors) = 1



(***************************************************************************)
(* binance.py: SubscribeKlines (python-connector)                          *)
(***************************************************************************)

\* Capacity of the merge queue in the model (asyncio.Queue(maxsize=100) in
\* the code).
QueueMaxSize == 2

\* Number of watch_ohlcv calls after which the venue stays silent for a
\* symbol.
MaxWatchCalls == 3

\* The symbol lists a call may request.
SymbolLists == { << >>, << "A" >>, << "A", "B" >> }

\* Classes watch_ohlcv raises in the model.
WatchErrors == { "NetworkError", "Exception" }

Producers == DOMAIN sProd

\* A producer task right after asyncio.create_task: not yet run.
NewProducer ==
    [ pc |-> "start", produced |-> 0, watchCalls |-> 0, cancelReq |-> FALSE,
      errorLogs |-> 0, lastError |-> "none", sleepFor |-> 0 ]

\* The candle the generator of position p yields as its n-th item.
Candle(p, n) == [ symbol |-> sSymbols[p], pos |-> p, seq |-> n ]

\* Mutant: the queue is unbounded (asyncio.Queue()).
QueueFullNever(q) == FALSE

\* Queue.full() for the queue created with maxsize=QueueMaxSize
QueueFull(q) == Len(q) >= QueueMaxSize

\* Mutant: the consumer takes the newest item.
QueueGetNewest(q) ==
    [ item |-> q[Len(q)], rest |-> SubSeq(q, 1, Len(q) - 1) ]

\* Mutant: the consumer reads the oldest item and leaves it in the queue.
QueueGetKeep(q) == [ item |-> Head(q), rest |-> q ]

\* Queue.get(): the oldest item leaves the queue
QueueGet(q) == [ item |-> Head(q), rest |-> Tail(q) ]

\* python-connector creates asyncio.Queue(maxsize=100), python_connector
\* asyncio.Queue(), which never blocks a put.
QueueBounded(v) == v # "python_connector"

\* Mutant: the finally block does not wait for the producers.
ProducersJoinedNoWait == TRUE

\* await asyncio.gather(*producers, return_exceptions=True) has returned:
\* every producer task is done
ProducersJoined == \A p \in Producers : sProd[p].pc = "done"

\* Mutant: the delay grows with the failures (a backoff).
WatchDelayGrowing(failures) == WatchErrorDelay * failures

\* await asyncio.sleep(5) in the except branch of a watch loop: the same
\* delay whatever the number of failures so far
WatchDelay(failures) == WatchErrorDelay

\* Mutant: the loop gives up after two failures.
WatchLoopGivesUp(failures) == failures < 2

\* while True: the loop condition of a watch loop, which counts no failures
WatchLoopCondition(failures) == TRUE

\* Mutant: one task runs the loops of all symbols, so that nothing else
\* runs while a symbol waits out its delay.
RunnableOneTask(p) == \A q \in DOMAIN sProd : sProd[q].pc # "sleep"

\* producers = [asyncio.create_task(producer(gen)) for gen in generators]:
\* every symbol has a task of its own, which runs whatever the others do
Runnable(p) == TRUE

\* The generator calls watch_ohlcv (again).  A producer whose MaxWatchCalls
\* calls are used up is "silent": its last watch_ohlcv call stays pending.
WatchAgain(pr) ==
    [ pr EXCEPT !.pc = "watch", !.watchCalls = @ + 1 ]

\* The stream is called: one generator and one producer task per symbol, then
\* the body awaits queue.get().
SubscribeKlines(symbols) ==
    /\ sPc = "idle"
    /\ wPc = "idle"
    /\ sVariant' = "python-connector"
    /\ sSymbols' = symbols
    /\ sProd' = [ p \in DOMAIN symbols |-> NewProducer ]
    /\ sPc' = "get"
    /\ UNCHANGED << sQueue, sReceived, sEndedBy >>

\* The producer task runs for the first time: the generator calls
\* watch_ohlcv.
ProducerStart(p) ==
    /\ sProd[p].pc = "start"
    /\ ~sProd[p].cancelReq
    /\ Runnable(p)
    /\ sProd' = [ sProd EXCEPT ![p] = WatchAgain(@) ]
    /\ UNCHANGED << sVariant, sSymbols, sPc, sQueue, sReceived, sEndedBy >>

\* watch_ohlcv returns candles: the generator yields the last one and the
\* producer puts it, at once when the queue has room, else it blocks in put.
WatchReturns(p) ==
    /\ sProd[p].pc = "watch"
    /\ ~sProd[p].cancelReq
    /\ Runnable(p)
    /\ IF QueueBounded(sVariant) /\ QueueFull(sQueue)
       THEN /\ sProd' = [ sProd EXCEPT ![p].pc = "put", ![p].produced = @ + 1 ]
            /\ UNCHANGED sQueue
       ELSE /\ sQueue' = Append(sQueue, Candle(p, sProd[p].produced + 1))
            /\ sProd' = [ sProd EXCEPT ![p] =
                            IF @.watchCalls < MaxWatchCalls
                            THEN WatchAgain([ @ EXCEPT !.produced = @ + 1 ])
                            ELSE [ @ EXCEPT !.produced = @ + 1, !.pc = "silent" ] ]
    /\ UNCHANGED << sVariant, sSymbols, sPc, sReceived, sEndedBy >>

\* watch_ohlcv returns an empty list: nothing is yielded, the loop calls it
\* again.
WatchReturnsEmpty(p) ==
    /\ sProd[p].pc = "watch"
    /\ ~sProd[p].cancelReq
    /\ Runnable(p)
    /\ sProd[p].watchCalls < MaxWatchCalls
    /\ sProd' = [ sProd EXCEPT ![p] = WatchAgain(@) ]
    /\ UNCHANGED << sVariant, sSymbols, sPc, sQueue, sReceived, sEndedBy >>

\* watch_ohlcv raises: logged at error severity (errorLogs counts the
\* records), then asyncio.sleep(5).
WatchRaises(p, c) ==
    /\ sProd[p].pc = "watch"
    /\ ~sProd[p].cancelReq
    /\ Runnable(p)
    /\ sProd' = [ sProd EXCEPT
                    ![p].pc = "sleep",
                    ![p].errorLogs = @ + 1,
                    ![p].lastError = c,
                    ![p].sleepFor = WatchDelay(sProd[p].errorLogs + 1) ]
    /\ UNCHANGED << sVariant, sSymbols, sPc, sQueue, sReceived, sEndedBy >>

\* The sleep after a failure is over: back to the head of the loop and to
\* watching.
WatchSleepElapsed(p) ==
    /\ sProd[p].pc = "sleep"
    /\ ~sProd[p].cancelReq
    /\ sProd' = [ sProd EXCEPT ![p] =
                    IF ~WatchLoopCondition(@.errorLogs)
                    THEN [ @ EXCEPT !.pc = "done", !.sleepFor = 0 ]
                    ELSE IF @.watchCalls < MaxWatchCalls
                    THEN WatchAgain([ @ EXCEPT !.sleepFor = 0 ])
                    ELSE [ @ EXCEPT !.pc = "silent", !.sleepFor = 0 ] ]
    /\ UNCHANGED << sVariant, sSymbols, sPc, sQueue, sReceived, sEndedBy >>

\* A producer blocked in queue.put finds room: the held item is enqueued.
PutUnblocked(p) ==
    /\ sProd[p].pc = "put"
    /\ ~sProd[p].cancelReq
    /\ Runnable(p)
    /\ ~QueueFull(sQueue)
    /\ sQueue' = Append(sQueue, Candle(p, sProd[p].produced))
    /\ sProd' = [ sProd EXCEPT ![p] =
                    IF @.watchCalls < MaxWatchCalls
                    THEN WatchAgain(@)
                    ELSE [ @ EXCEPT !.pc = "silent" ] ]
    /\ UNCHANGED << sVariant, sSymbols, sPc, sReceived, sEndedBy >>

\* queue.get() returns the oldest item and the body yields it to the caller.
ConsumerGet ==
    /\ sPc = "get"
    /\ sQueue # << >>
    /\ sReceived' = Append(sReceived, QueueGet(sQueue).item)
    /\ sQueue' = QueueGet(sQueue).rest
    /\ sPc' = "yielded"
    /\ UNCHANGED << sVariant, sSymbols, sProd, sEndedBy >>

\* The caller asks for the next item: the body loops to queue.get().
ConsumerNext ==
    /\ sPc = "yielded"
    /\ sPc' = "get"
    /\ UNCHANGED << sVariant, sSymbols, sProd, sQueue, sReceived, sEndedBy >>

\* The finally block: cancel every producer that is not done, then gather
\* them (skipped when there are no producers).
Finally ==
    /\ sProd' = [ p \in Producers |->
                    IF sProd[p].pc # "done"
                    THEN [ sProd[p] EXCEPT !.cancelReq = TRUE ]
                    ELSE sProd[p] ]
    /\ sPc' = IF Producers # {} THEN "join" ELSE "closed"
    /\ UNCHANGED << sVariant, sSymbols, sQueue, sReceived >>

\* The consumer task is cancelled while the body awaits queue.get().
ConsumerCancelled ==
    /\ sPc = "get"
    /\ sVariant = "python-connector"
    /\ sEndedBy' = "cancelled"
    /\ Finally

\* The caller closes the stream while the body is suspended at yield.
StreamClosed ==
    /\ sPc = "yielded"
    /\ sVariant = "python-connector"
    /\ sEndedBy' = "closed"
    /\ Finally

\* Mutant: producer() has a single clause, which logs whatever it receives.
ProducerExceptLogsAll(e) == "log"

\* The clause of producer() that receives an exception leaving "async for":
\* except asyncio.CancelledError: pass, then except Exception: logger.error
ProducerExcept(e) ==
    IF IsInstance(e, "CancelledError") THEN "pass"
    ELSE IF IsInstance(e, "Exception") THEN "log"
    ELSE "propagate"

\* The clause of watch_symbol's try that receives an exception raised by
\* watch_ohlcv: except asyncio.CancelledError: break, then except Exception
WatchExcept(e) ==
    IF IsInstance(e, "CancelledError") THEN "break"
    ELSE IF IsInstance(e, "Exception") THEN "log_sleep"
    ELSE "propagate"

\* Whether the CancelledError raised where the producer is suspended ends in
\* a clause that logs.  In watch_ohlcv it is raised inside the try of
\* watch_symbol; when that clause does not break, and in the sleep of the
\* except branch and in queue.put, it reaches the clauses of producer().
CancelLogged(at) ==
    /\ at \in { "watch", "silent", "sleep", "put" }
    /\ at \in { "watch", "silent" } =>
          WatchExcept(MkExc("CancelledError", 97)) = "propagate"
    /\ ProducerExcept(MkExc("CancelledError", 97)) = "log"

\* The cancellation reaches producer p where it is suspended (watch_ohlcv,
\* the sleep, queue.put, or not yet started): the task finishes.
ProducerCancelled(p) ==
    /\ sProd[p].cancelReq
    /\ sProd[p].pc # "done"
    /\ sProd' = [ sProd EXCEPT ![p] =
                    IF sVariant = "python-connector" /\ CancelLogged(@.pc)
                    THEN [ @ EXCEPT !.pc = "done", !.errorLogs = @ + 1 ]
                    ELSE [ @ EXCEPT !.pc = "done" ] ]
    /\ UNCHANGED << sVariant, sSymbols, sPc, sQueue, sReceived, sEndedBy >>

\* python_connector: SubscribeKlines is called.  Its generators and
\* producer tasks are those of python-connector without the clauses for
\* CancelledError.
LegacySubscribeKlines(symbols) ==
    /\ sPc = "idle"
    /\ wPc = "idle"
    /\ sVariant' = "python_connector"
    /\ sSymbols' = symbols
    /\ sProd' = [ p \in DOMAIN symbols |-> NewProducer ]
    /\ sPc' = "get"
    /\ UNCHANGED << sQueue, sReceived, sEndedBy >>

\* python_connector: the consumer task is cancelled at queue.get.  except
\* asyncio.CancelledError calls p.cancel() for every producer and re-raises
\* without awaiting them: the call completes.
LegacyConsumerCancelled ==
    /\ sPc = "get"
    /\ sVariant = "python_connector"
    /\ sEndedBy' = "cancelled"
    /\ sProd' = [ p \in Producers |->
                    IF sProd[p].pc # "done"
                    THEN [ sProd[p] EXCEPT !.cancelReq = TRUE ]
                    ELSE sProd[p] ]
    /\ sPc' = "closed"
    /\ UNCHANGED << sVariant, sSymbols, sQueue, sReceived >>

\* python_connector: the caller closes the stream while the body is
\* suspended at yield.  GeneratorExit is no CancelledError: the except
\* clause is skipped and the call completes with its producers untouched.
LegacyStreamClosed ==
    /\ sPc = "yielded"
    /\ sVariant = "python_connector"
    /\ sEndedBy' = "closed"
    /\ sPc' = "closed"
    /\ UNCHANGED << sVariant, sSymbols, sProd, sQueue, sReceived >>

\* gather returns in the finally block: the stream call completes.
JoinDone ==
    /\ sPc = "join"
    /\ ProducersJoined
    /\ sPc' = "closed"
    /\ UNCHANGED << sVariant, sSymbols, sProd, sQueue, sReceived, sEndedBy >>

(***************************************************************************)
(* binance.py: SubscribePrice, SubscribeOrders, SubscribeAccount,          *)
(* SubscribePositions (python-connector): the body is the watch loop       *)
(***************************************************************************)

\* Number of watch_* calls after which the venue stays silent.
MaxLoopCalls == 6

\* Most items one watch_orders / watch_positions result holds in the model.
MaxWatchItems == 2

LoopRpcs ==
    { "SubscribePrice", "SubscribeOrders", "SubscribeAccount",
      "SubscribePositions" }

\* Classes a watch_* call raises in the model: a transient one, a permanent
\* one and a non-ccxt one.
LoopWatchErrors == { "NetworkError", "AuthenticationError", "Exception" }

\* The requests of a call: SubscribePrice carries a list of symbols.
LoopSymbolLists(rpc) ==
    IF rpc = "SubscribePrice" THEN SymbolLists ELSE { << >> }

\* SubscribePrice: symbols = list(request.symbols); if not symbols: return
EmptyRequestReturns(rpc, symbols) ==
    rpc = "SubscribePrice" /\ symbols = << >>

\* How many items one watch result makes the loop yield: a price per
\* requested symbol found in tickers, one update per order or position, one
\* Account per balance.
ItemCounts(rpc, symbols) ==
    CASE rpc = "SubscribePrice"   -> 0..Len(symbols)
      [] rpc = "SubscribeAccount" -> { 1 }
      [] OTHER                    -> 0..MaxWatchItems

\* Ways a generator ends that the caller brings about.
CallerEnds == { "break", "cancelled", "closed" }

\* Back at the head of the loop: the watch_* method is called (again).  When
\* MaxLoopCalls calls are used up the venue is "silent": the call stays
\* pending.
LoopWatchAgain ==
    IF wCalls < MaxLoopCalls
    THEN wPc' = "watch" /\ wCalls' = wCalls + 1
    ELSE wPc' = "silent" /\ UNCHANGED wCalls

\* The stream is called and its body starts.
Subscribe(rpc, symbols) ==
    /\ wPc = "idle"
    /\ sPc = "idle"
    /\ wRpc' = rpc
    /\ wSymbols' = symbols
    /\ IF EmptyRequestReturns(rpc, symbols)
       THEN wPc' = "ended" /\ wEnd' = "return" /\ UNCHANGED wCalls
       ELSE LoopWatchAgain /\ UNCHANGED wEnd
    /\ UNCHANGED << wFailures, wErrorLogs, wSleepFor, wPending, wYielded >>

\* The watch_* call returns a result that makes the loop yield n items: the
\* first one is yielded, or with none the loop watches again.
LoopWatchReturns(n) ==
    /\ wPc = "watch"
    /\ wFailures' = 0
    /\ IF n = 0
       THEN LoopWatchAgain /\ UNCHANGED << wPending, wYielded >>
       ELSE /\ wPc' = "yielded"
            /\ wPending' = n - 1
            /\ wYielded' = wYielded + 1
            /\ UNCHANGED wCalls
    /\ UNCHANGED << wRpc, wSymbols, wErrorLogs, wSleepFor, wEnd >>

\* The caller asks for the next item: the for loop yields it, or is over and
\* the while loop watches again.
LoopNext ==
    /\ wPc = "yielded"
    /\ IF wPending > 0
       THEN /\ wPending' = wPending - 1
            /\ wYielded' = wYielded + 1
            /\ UNCHANGED << wPc, wCalls >>
       ELSE LoopWatchAgain /\ UNCHANGED << wPending, wYielded >>
    /\ UNCHANGED << wRpc, wSymbols, wFailures, wErrorLogs, wSleepFor, wEnd >>

\* The watch_* call raises: except Exception logs at error severity and
\* sleeps.
LoopWatchRaises(c) ==
    /\ wPc = "watch"
    /\ wFailures' = wFailures + 1
    /\ wErrorLogs' = wErrorLogs + 1
    /\ wSleepFor' = WatchDelay(wFailures + 1)
    /\ wPc' = "sleep"
    /\ UNCHANGED << wRpc, wSymbols, wCalls, wPending, wYielded, wEnd >>

\* The sleep is over: back to the head of the while loop.
LoopSleepElapsed ==
    /\ wPc = "sleep"
    /\ wSleepFor' = 0
    /\ IF WatchLoopCondition(wFailures)
       THEN LoopWatchAgain /\ UNCHANGED wEnd
       ELSE wPc' = "ended" /\ wEnd' = "return" /\ UNCHANGED wCalls
    /\ UNCHANGED << wRpc, wSymbols, wFailures, wErrorLogs, wPending, wYielded >>

\* The task consuming the stream is cancelled while the generator awaits:
\* in the watch_* call except asyncio.CancelledError breaks out of the loop,
\* in the sleep of the except branch the CancelledError leaves the generator.
LoopCancelled ==
    /\ wPc \in { "watch", "silent", "sleep" }
    /\ wPc' = "ended"
    /\ wEnd' = IF wPc = "sleep" THEN "cancelled" ELSE "break"
    /\ UNCHANGED << wRpc, wSymbols, wCalls, wFailures, wErrorLogs, wSleepFor,
                    wPending, wYielded >>

\* The caller closes the stream while the generator is suspended at yield.
LoopClosed ==
    /\ wPc = "yielded"
    /\ wPc' = "ended"
    /\ wEnd' = "closed"
    /\ UNCHANGED << wRpc, wSymbols, wCalls, wFailures, wErrorLogs, wSleepFor,
                    wPending, wYielded >>

\* A step of a watch-loop stream leaves the other calls alone.
OnlyLoop ==
    UNCHANGED << unaryVars, batchVars, cancelVars, streamVars, accountVars,
                 handlerVars,
                 legacyVars,
                 callsVars,
                 marketVars >>

\* A step of the stream call leaves the other calls alone.
OnlyStream ==
    UNCHANGED << unaryVars, batchVars, cancelVars, loopVars, accountVars,
                 handlerVars,
                 legacyVars,
                 callsVars,
                 marketVars >>

NextStream ==
    \/ \E symbols \in SymbolLists : SubscribeKlines(symbols) /\ OnlyStream
    \/ \E p \in Producers : ProducerStart(p) /\ OnlyStream
    \/ \E p \in Producers : WatchReturns(p) /\ OnlyStream
    \/ \E p \in Producers : WatchReturnsEmpty(p) /\ OnlyStream
    \/ \E p \in Producers, c \in WatchErrors : WatchRaises(p, c) /\ OnlyStream
    \/ \E p \in Producers : WatchSleepElapsed(p) /\ OnlyStream
    \/ \E p \in Producers : PutUnblocked(p) /\ OnlyStream
    \/ ConsumerGet /\ OnlyStream
    \/ ConsumerNext /\ OnlyStream
    \/ ConsumerCancelled /\ OnlyStream
    \/ StreamClosed /\ OnlyStream
    \/ \E p \in Producers : ProducerCancelled(p) /\ OnlyStream
    \/ JoinDone /\ OnlyStream
    \/ \E rpc \in LoopRpcs : \E symbols \in LoopSymbolLists(rpc) :
          Subscribe(rpc, symbols) /\ OnlyLoop
    \/ \E n \in ItemCounts(wRpc, wSymbols) : LoopWatchReturns(n) /\ OnlyLoop
    \/ LoopNext /\ OnlyLoop
    \/ \E c \in LoopWatchErrors : LoopWatchRaises(c) /\ OnlyLoop
    \/ LoopSleepElapsed /\ OnlyLoop
    \/ LoopCancelled /\ OnlyLoop
    \/ LoopClosed /\ OnlyLoop

SpecStream == Init /\ [][NextStream]_vars

(***************************************************************************)
(* binance.py: BatchPlaceOrders (python_connector).  The fallback awaits   *)
(* self.PlaceOrder(req, context), the RPC with both decorators, per item   *)
(***************************************************************************)

\* Largest batch the model submits to python_connector.
MaxLegacyBatch == 2

\* The task of an item before its first step.  abort is the status of the
\* context.abort call the item's handle_ccxt_exception made ("none": none).
LegacyPendingItem ==
    [ pc |-> "pending", attempt |-> 0, createCalls |-> 0, fetchCalls |-> 0,
      result |-> NoResult, abort |-> "none" ]

LegacyBatches ==
    UNION { [ 1..n -> BatchRequests ] : n \in 1..MaxLegacyBatch }

\* tasks.append(self.PlaceOrder(req, context)): the attribute is the
\* function wrapped by handle_ccxt_exception and retry_transient
LegacyItemDecorated == TRUE

\* handle_ccxt_exception of the item's PlaceOrder: context = args[-1], the
\* context of the batch RPC; if context: await context.abort(status, str(e))
LegacyItemAbort(e) ==
    IF LegacyItemDecorated /\ lContext /\ HandlerCatches(e)
    THEN StatusCodeOfLegacy(e) ELSE "none"

\* The failure e leaves the body of the item's PlaceOrder: retry_transient
\* sleeps and tries again, or lets it through to handle_ccxt_exception,
\* which aborts and re-raises; gather keeps it as the task's result.
LegacyItemRaises(it, e) ==
    IF LegacyItemDecorated /\ RetryCaught(e) /\ ~RetryExhausted(it.attempt)
    THEN [ it EXCEPT !.pc = "sleep" ]
    ELSE [ it EXCEPT !.pc = "done",
                     !.result = [ kind |-> "exc", exc |-> e ],
                     !.abort = LegacyItemAbort(e) ]

\* The fallback: one PlaceOrder coroutine per request, handed to gather.
LegacyStartFallback(orders) ==
    /\ lItems' = [ i \in DOMAIN orders |-> LegacyPendingItem ]
    /\ lPc' = "gather"

\* The RPC is called.  The enum conversions of python_connector never
\* raise, so with the capability create_orders is awaited.
LegacyBatchPlaceOrders(orders, native, ctx) ==
    /\ lPc = "idle"
    /\ lOrders' = orders
    /\ lContext' = ctx
    /\ IF native
       THEN lPc' = "native" /\ UNCHANGED lItems
       ELSE LegacyStartFallback(orders)
    /\ UNCHANGED lOutcome

\* exchange.create_orders returns one order per request.
LegacyNativeReturns ==
    /\ lPc = "native"
    /\ lOutcome' =
         [ kind |-> "return",
           orders |-> [ i \in DOMAIN lOrders |->
                          MapOrder(VenueOrder(ItemOrderId(i, FALSE),
                                              lOrders[i].client_order_id)) ],
           all_success |-> TRUE ]
    /\ lPc' = "done"
    /\ UNCHANGED << lOrders, lContext, lItems >>

\* exchange.create_orders raises: except Exception prints and falls through
\* to the fallback.
LegacyNativeRaises(c) ==
    /\ lPc = "native"
    /\ IF NativeFailureCaught(MkExc(c, 99))
       THEN LegacyStartFallback(lOrders) /\ UNCHANGED lOutcome
       ELSE /\ lOutcome' = [ kind |-> "raise", exc |-> MkExc(c, 99) ]
            /\ lPc' = "done"
            /\ UNCHANGED lItems
    /\ UNCHANGED << lOrders, lContext >>

\* The task of item i runs to its first await: exchange.create_order.
LegacyItemStart(i) ==
    /\ lPc = "gather"
    /\ lItems[i].pc = "pending"
    /\ lItems' = [ lItems EXCEPT ![i].pc = "create_order",
                                 ![i].createCalls = @ + 1 ]
    /\ UNCHANGED << lOrders, lContext, lPc, lOutcome >>

\* exchange.create_order of item i returns.
LegacyItemCreateReturns(i) ==
    /\ lPc = "gather"
    /\ lItems[i].pc = "create_order"
    /\ lItems' =
         [ lItems EXCEPT
             ![i].pc = "done",
             ![i].result =
                 [ kind |-> "order",
                   order |-> MapOrder(VenueOrder(ItemOrderId(i, FALSE),
                                                 lOrders[i].client_order_id)) ] ]
    /\ UNCHANGED << lOrders, lContext, lPc, lOutcome >>

\* exchange.create_order of item i raises.
LegacyItemCreateRaises(i, c) ==
    /\ lPc = "gather"
    /\ lItems[i].pc = "create_order"
    /\ lItems' =
         [ lItems EXCEPT ![i] =
             IF DuplicateRecoverable(ItemExc(c, i, 1), lOrders[i])
             THEN [ @ EXCEPT !.pc = "fetch_order", !.fetchCalls = @ + 1 ]
             ELSE LegacyItemRaises(@, ItemExc(c, i, 1)) ]
    /\ UNCHANGED << lOrders, lContext, lPc, lOutcome >>

\* exchange.fetch_order of item i returns the existing order.
LegacyItemFetchReturns(i) ==
    /\ lPc = "gather"
    /\ lItems[i].pc = "fetch_order"
    /\ lItems' =
         [ lItems EXCEPT
             ![i].pc = "done",
             ![i].result =
                 [ kind |-> "order",
                   order |-> MapOrder(VenueOrder(ItemOrderId(i, TRUE),
                                                 lOrders[i].client_order_id)) ] ]
    /\ UNCHANGED << lOrders, lContext, lPc, lOutcome >>

\* exchange.fetch_order of item i raises: printed and re-raised.
LegacyItemFetchRaises(i, c) ==
    /\ lPc = "gather"
    /\ lItems[i].pc = "fetch_order"
    /\ lItems' = [ lItems EXCEPT ![i] = LegacyItemRaises(@, ItemExc(c, i, 2)) ]
    /\ UNCHANGED << lOrders, lContext, lPc, lOutcome >>

\* The backoff sleep of item i's retry_transient returns: its PlaceOrder
\* body runs again.
LegacyItemBackoffElapsed(i) ==
    /\ lPc = "gather"
    /\ lItems[i].pc = "sleep"
    /\ lItems' = [ lItems EXCEPT ![i].pc = "create_order",
                                 ![i].attempt = @ + 1,
                                 ![i].createCalls = @ + 1 ]
    /\ UNCHANGED << lOrders, lContext, lPc, lOutcome >>

RECURSIVE LegacyCollectOrders(_, _)
\* response_orders after the loop over results[i..]
LegacyCollectOrders(items, i) ==
    IF i > Len(items) THEN << >>
    ELSE IF items[i].result.kind = "exc" THEN LegacyCollectOrders(items, i + 1)
    ELSE << items[i].result.order >> \o LegacyCollectOrders(items, i + 1)

\* Every task is done: gather returns and the response is assembled.
LegacyFallbackDone ==
    /\ lPc = "gather"
    /\ \A i \in DOMAIN lItems : lItems[i].pc = "done"
    /\ lOutcome' =
         [ kind |-> "return",
           orders |-> LegacyCollectOrders(lItems, 1),
           all_success |-> \A i \in DOMAIN lItems : lItems[i].result.kind # "exc" ]
    /\ lPc' = "done"
    /\ UNCHANGED << lOrders, lContext, lItems >>

\* A step of python_connector's batch leaves the other calls alone.
OnlyLegacyBatch ==
    UNCHANGED << unaryVars, batchVars, streamVars, cancelVars, loopVars,
                 accountVars, handlerVars,
                 callsVars,
                 marketVars >>

NextLegacyBatch ==
    \/ \E orders \in LegacyBatches, native \in BOOLEAN, ctx \in BOOLEAN :
          LegacyBatchPlaceOrders(orders, native, ctx) /\ OnlyLegacyBatch
    \/ LegacyNativeReturns /\ OnlyLegacyBatch
    \/ \E c \in BatchNativeErrors : LegacyNativeRaises(c) /\ OnlyLegacyBatch
    \/ \E i \in DOMAIN lItems : LegacyItemStart(i) /\ OnlyLegacyBatch
    \/ \E i \in DOMAIN lItems : LegacyItemCreateReturns(i) /\ OnlyLegacyBatch
    \/ \E i \in DOMAIN lItems, c \in BatchCreateErrors :
          LegacyItemCreateRaises(i, c) /\ OnlyLegacyBatch
    \/ \E i \in DOMAIN lItems : LegacyItemFetchReturns(i) /\ OnlyLegacyBatch
    \/ \E i \in DOMAIN lItems, c \in BatchFetchErrors :
          LegacyItemFetchRaises(i, c) /\ OnlyLegacyBatch
    \/ \E i \in DOMAIN lItems : LegacyItemBackoffElapsed(i) /\ OnlyLegacyBatch
    \/ LegacyFallbackDone /\ OnlyLegacyBatch

SpecLegacyBatch == Init /\ [][NextLegacyBatch]_vars

(***************************************************************************)
(* binance.py: SubscribeKlines (python-connector), several calls at a time *)
(***************************************************************************)

\* Mutant: the queue is an attribute of the connector, shared by the calls.
QueueOfShared(c) == 1

\* queue = asyncio.Queue(maxsize=100) is a local of the call: the queue that
\* the producers and the consumer of call c use
QueueOf(c) == c

\* producers = [...] is a local of the call: the calls whose producer tasks
\* the finally block of call c cancels and gathers
ProducersOf(c) == { c }

\* The producers of call c.
CallProducers(c) == DOMAIN kCall[c].prod

\* The candle the generator of position p of call c yields.
CallItem(c, p) == [ call |-> c, pos |-> p ]

\* Some producer of call c other than p is blocked in queue.put.
OthersBlocked(c, p) ==
    \E q \in CallProducers(c) : q # p /\ kCall[c].prod[q].pc = "put"

\* Call c is made with n symbols: one generator and one producer task per
\* symbol, each at its first watch_ohlcv, and the body awaits queue.get().
CallSubscribe(c, n) ==
    /\ kCall[c].pc = "idle"
    /\ kCall' = [ kCall EXCEPT ![c].pc = "get",
                               ![c].nsym = n,
                               ![c].prod = [ p \in 1..n |->
                                   [ pc |-> "watch", cancelReq |-> FALSE ] ] ]
    /\ UNCHANGED kQueue

\* watch_ohlcv of producer p returns candles: the producer puts the last one
\* at once when the queue has room, else it blocks in put.
CallWatchReturns(c, p) ==
    /\ p \in CallProducers(c)
    /\ kCall[c].prod[p].pc = "watch"
    /\ ~kCall[c].prod[p].cancelReq
    /\ IF QueueFull(kQueue[QueueOf(c)])
       THEN /\ kCall' = [ kCall EXCEPT ![c].prod[p].pc = "put",
                                       ![c].overtook = FALSE ]
            /\ UNCHANGED kQueue
       ELSE /\ kQueue' = [ kQueue EXCEPT ![QueueOf(c)] = Append(@, CallItem(c, p)) ]
            /\ kCall' = [ kCall EXCEPT ![c].overtook = OthersBlocked(c, p) ]

\* watch_ohlcv raises: logged, then asyncio.sleep(5).
CallWatchRaises(c, p) ==
    /\ p \in CallProducers(c)
    /\ kCall[c].prod[p].pc = "watch"
    /\ ~kCall[c].prod[p].cancelReq
    /\ kCall' = [ kCall EXCEPT ![c].prod[p].pc = "sleep", ![c].overtook = FALSE ]
    /\ UNCHANGED kQueue

\* The sleep after a failure is over: the loop watches again.
CallSleepElapsed(c, p) ==
    /\ p \in CallProducers(c)
    /\ kCall[c].prod[p].pc = "sleep"
    /\ ~kCall[c].prod[p].cancelReq
    /\ kCall' = [ kCall EXCEPT ![c].prod[p].pc = "watch", ![c].overtook = FALSE ]
    /\ UNCHANGED kQueue

\* A producer blocked in queue.put finds room: its item is enqueued and its
\* generator watches again.  The order in which the waiting producers are
\* woken is not kept: any of them may be the one that finds the room.
CallPutUnblocked(c, p) ==
    /\ p \in CallProducers(c)
    /\ kCall[c].prod[p].pc = "put"
    /\ ~kCall[c].prod[p].cancelReq
    /\ ~QueueFull(kQueue[QueueOf(c)])
    /\ kQueue' = [ kQueue EXCEPT ![QueueOf(c)] = Append(@, CallItem(c, p)) ]
    /\ kCall' = [ kCall EXCEPT ![c].prod[p].pc = "watch",
                               ![c].overtook = OthersBlocked(c, p) ]

\* queue.get() returns the oldest item and the body yields it to the caller.
CallGet(c) ==
    /\ kCall[c].pc = "get"
    /\ kQueue[QueueOf(c)] # << >>
    /\ kCall' = [ kCall EXCEPT ![c].pc = "yielded",
                               ![c].last = QueueGet(kQueue[QueueOf(c)]).item,
                               ![c].overtook = FALSE ]
    /\ kQueue' = [ kQueue EXCEPT ![QueueOf(c)] = QueueGet(@).rest ]

\* The caller asks for the next item: the body loops to queue.get().
CallNext(c) ==
    /\ kCall[c].pc = "yielded"
    /\ kCall' = [ kCall EXCEPT ![c].pc = "get", ![c].overtook = FALSE ]
    /\ UNCHANGED kQueue

\* The finally block of call c: cancel every producer in its list that is
\* not done, then gather them.
CallFinally(c) ==
    /\ kCall' =
         [ d \in CallIds |->
             [ kCall[d] EXCEPT
                 !.pc = IF d # c THEN @
                        ELSE IF CallProducers(c) # {} THEN "join" ELSE "closed",
                 !.overtook = IF d = c THEN FALSE ELSE @,
                 !.prod = IF d \in ProducersOf(c)
                          THEN [ p \in DOMAIN @ |->
                                   IF @[p].pc # "done"
                                   THEN [ @[p] EXCEPT !.cancelReq = TRUE ]
                                   ELSE @[p] ]
                          ELSE @ ] ]
    /\ UNCHANGED kQueue

\* The consumer task of call c is cancelled while the body awaits
\* queue.get().
CallCancelled(c) ==
    /\ kCall[c].pc = "get"
    /\ CallFinally(c)

\* The caller closes the stream of call c while the body is suspended at
\* yield.
CallClosed(c) ==
    /\ kCall[c].pc = "yielded"
    /\ CallFinally(c)

\* The cancellation reaches producer p of call c: the task finishes.
CallProducerCancelled(c, p) ==
    /\ p \in CallProducers(c)
    /\ kCall[c].prod[p].cancelReq
    /\ kCall[c].prod[p].pc # "done"
    /\ kCall' = [ kCall EXCEPT ![c].prod[p].pc = "done" ]
    /\ UNCHANGED kQueue

\* gather returns in the finally block of call c: the call completes.
CallJoinDone(c) ==
    /\ kCall[c].pc = "join"
    /\ \A d \in ProducersOf(c) : \A p \in CallProducers(d) :
          kCall[d].prod[p].pc = "done"
    /\ kCall' = [ kCall EXCEPT ![c].pc = "closed" ]
    /\ UNCHANGED kQueue

\* A step of the concurrent calls leaves the other models alone.
OnlyCalls ==
    UNCHANGED << unaryVars, batchVars, streamVars, cancelVars, loopVars,
                 accountVars, handlerVars, legacyVars,
                 marketVars >>

\* Numbers of symbols of a call.
CallSizes == { Len(s) : s \in SymbolLists }

\* Positions of the producers of a call.
CallPositions == CallSizes \ { 0 }

\* The steps of call c while its caller neither cancels nor closes it.
CallRuns(c) ==
    \/ \E n \in CallSizes : CallSubscribe(c, n) /\ OnlyCalls
    \/ \E p \in CallProducers(c) : CallWatchReturns(c, p) /\ OnlyCalls
    \/ \E p \in CallProducers(c) : CallPutUnblocked(c, p) /\ OnlyCalls
    \/ CallGet(c) /\ OnlyCalls
    \/ CallNext(c) /\ OnlyCalls

\* The steps of a producer of call c whose watch fails.
CallFails(c) ==
    \/ \E p \in CallProducers(c) : CallWatchRaises(c, p) /\ OnlyCalls
    \/ \E p \in CallProducers(c) : CallSleepElapsed(c, p) /\ OnlyCalls

\* The steps that end call c.
CallEnds(c) ==
    \/ CallCancelled(c) /\ OnlyCalls
    \/ CallClosed(c) /\ OnlyCalls
    \/ \E p \in CallProducers(c) : CallProducerCancelled(c, p) /\ OnlyCalls
    \/ CallJoinDone(c) /\ OnlyCalls

\* One call that is never cancelled or closed, with a consumer that keeps
\* pulling: the event loop runs every task that can run (weak fairness of
\* the consumer's steps, of the end of a delay and of a blocked put).
NextCallRuns == CallRuns(1) \/ CallFails(1)

SpecCallRuns ==
    /\ Init
    /\ [][NextCallRuns]_vars
    /\ WF_vars(CallGet(1) /\ OnlyCalls)
    /\ WF_vars(CallNext(1) /\ OnlyCalls)
    /\ \A p \in CallPositions : WF_vars(CallSleepElapsed(1, p) /\ OnlyCalls)
    /\ \A p \in CallPositions : WF_vars(CallPutUnblocked(1, p) /\ OnlyCalls)

\* Calls made at the same time, with watches that return candles: every
\* call runs, is cancelled or closed on its own.
NextCalls == \E c \in CallIds : CallRuns(c) \/ CallEnds(c)

SpecCalls == Init /\ [][NextCalls]_vars

(***************************************************************************)
(* binance.py: _ensure_markets (python-connector)                          *)
(***************************************************************************)

\* The RPCs whose body awaits _ensure_markets.
MarketRpcs == { "GetSymbolInfo", "GetSymbols" }

\* Mutant: the lock never keeps a caller out.
LockFreeAlways(l) == TRUE

\* asyncio.Lock: the lock can be taken
LockFree(l) == l = 0

\* await self.exchange.load_markets() is entered by caller t, which holds
\* the lock.
StartLoad(t, rpc) ==
    /\ market_lock' = t
    /\ ensure' = [ ensure EXCEPT ![t] = [ rpc |-> rpc, pc |-> "loading" ] ]
    /\ loads' = [ loads EXCEPT !.late = @ \/ loads.succeeded ]
    /\ UNCHANGED markets_loaded

\* Caller t serves an RPC and enters _ensure_markets: with the flag set it
\* returns at once; else it takes the lock if it is free and, the flag still
\* being unset, starts load_markets; else it waits for the lock.
EnsureMarkets(t, rpc) ==
    /\ ensure[t].pc = "idle"
    /\ IF markets_loaded
       THEN /\ ensure' = [ ensure EXCEPT ![t] = [ rpc |-> rpc, pc |-> "returned" ] ]
            /\ UNCHANGED << markets_loaded, market_lock, loads >>
       ELSE IF LockFree(market_lock)
       THEN StartLoad(t, rpc)
       ELSE /\ ensure' = [ ensure EXCEPT ![t] = [ rpc |-> rpc, pc |-> "wait" ] ]
            /\ UNCHANGED << markets_loaded, market_lock, loads >>

\* A caller waiting for the lock gets it and checks the flag again: set, it
\* releases the lock and returns; unset, it starts load_markets.
LockAcquired(t) ==
    /\ ensure[t].pc = "wait"
    /\ LockFree(market_lock)
    /\ IF markets_loaded
       THEN /\ ensure' = [ ensure EXCEPT ![t].pc = "returned" ]
            /\ UNCHANGED << markets_loaded, market_lock, loads >>
       ELSE StartLoad(t, ensure[t].rpc)

\* The lock is released at the end of the async with block of caller t.
Release(t) == IF market_lock = t THEN 0 ELSE market_lock

\* load_markets returns: the flag is set, the lock released.
LoadReturns(t) ==
    /\ ensure[t].pc = "loading"
    /\ markets_loaded' = TRUE
    /\ market_lock' = Release(t)
    /\ ensure' = [ ensure EXCEPT ![t].pc = "returned" ]
    /\ loads' = [ loads EXCEPT !.succeeded = TRUE ]

\* load_markets raises: the exception leaves the async with block, which
\* releases the lock; the flag is not touched.
LoadRaises(t) ==
    /\ ensure[t].pc = "loading"
    /\ market_lock' = Release(t)
    /\ ensure' = [ ensure EXCEPT ![t].pc = "raised" ]
    /\ loads' = [ loads EXCEPT !.failed = TRUE ]
    /\ UNCHANGED markets_loaded

\* The task of caller t is cancelled while it waits for the lock or for
\* load_markets: a lock it holds is released; the flag is not touched.
EnsureCancelled(t) ==
    /\ ensure[t].pc \in { "wait", "loading" }
    /\ market_lock' = IF ensure[t].pc = "loading" THEN Release(t)
                       ELSE market_lock
    /\ ensure' = [ ensure EXCEPT ![t].pc = "cancelled" ]
    /\ UNCHANGED << markets_loaded, loads >>

\* The RPC of caller t is over; the task may serve another one.
EnsureOver(t) ==
    /\ ensure[t].pc \in { "returned", "raised", "cancelled" }
    /\ ensure' = [ ensure EXCEPT ![t] = [ rpc |-> "none", pc |-> "idle" ] ]
    /\ UNCHANGED << markets_loaded, market_lock, loads >>

\* A step of the market metadata leaves the other models alone.
OnlyMarkets ==
    UNCHANGED << unaryVars, batchVars, streamVars, cancelVars, loopVars,
                 accountVars, handlerVars, legacyVars, callsVars >>

NextMarkets ==
    \E t \in Callers :
        \/ \E rpc \in MarketRpcs : EnsureMarkets(t, rpc) /\ OnlyMarkets
        \/ LockAcquired(t) /\ OnlyMarkets
        \/ LoadReturns(t) /\ OnlyMarkets
        \/ LoadRaises(t) /\ OnlyMarkets
        \/ EnsureCancelled(t) /\ OnlyMarkets
        \/ EnsureOver(t) /\ OnlyMarkets

SpecMarkets == Init /\ [][NextMarkets]_vars

\* One SubscribeKlines call of python_connector.
NextLegacyStream ==
    \/ \E symbols \in SymbolLists : LegacySubscribeKlines(symbols) /\ OnlyStream
    \/ \E p \in Producers : ProducerStart(p) /\ OnlyStream
    \/ \E p \in Producers : WatchReturns(p) /\ OnlyStream
    \/ \E p \in Producers : WatchReturnsEmpty(p) /\ OnlyStream
    \/ \E p \in Producers, c \in WatchErrors : WatchRaises(p, c) /\ OnlyStream
    \/ \E p \in Producers : WatchSleepElapsed(p) /\ OnlyStream
    \/ ConsumerGet /\ OnlyStream
    \/ ConsumerNext /\ OnlyStream
    \/ LegacyConsumerCancelled /\ OnlyStream
    \/ LegacyStreamClosed /\ OnlyStream
    \/ \E p \in Producers : ProducerCancelled(p) /\ OnlyStream

SpecLegacyStream == Init /\ [][NextLegacyStream]_vars


(***************************************************************************)
(* Properties of SubscribeKlines (checked under SpecStream)                *)
(***************************************************************************)

\* The finally block of the stream body has been entered.
StreamEnding == sPc \in { "join", "closed" }

\* Number of positions of seq that hold x.
Count(seq, x) == Cardinality({ k \in DOMAIN seq : seq[k] = x })

\* C6: when the stream call has completed, every producer task has been
\* cancelled and is done; no state has the call completed with a producer
\* still running.
C6_ProducersJoinedAtClose ==
    sPc = "closed"
        => \A p \in Producers : sProd[p].pc = "done" /\ sProd[p].cancelReq

\* C6 witness: a call with two producers completed after items had been
\* delivered, with an item still queued; both producers are done.
C6_Witness ==
    /\ sPc = "closed"
    /\ Len(sSymbols) = 2
    /\ sReceived # << >>
    /\ sQueue # << >>
    /\ \A p \in Producers : sProd[p].pc = "done"

\* C7: the queue never holds more than its capacity; until the stream ends
\* every item a generator yielded is in exactly one place (delivered, queued,
\* or held by its producer blocked in put), so none is dropped or
\* overwritten; and no producer ends (with an error) before cancellation.
C7_BoundedQueueBackpressure ==
    /\ Len(sQueue) <= QueueMaxSize
    /\ \A p \in Producers : ~sProd[p].cancelReq => sProd[p].pc # "done"
    /\ ~StreamEnding =>
          \A p \in Producers : \A n \in 1..sProd[p].produced :
              Count(sReceived, Candle(p, n)) + Count(sQueue, Candle(p, n))
                + (IF sProd[p].pc = "put" /\ n = sProd[p].produced THEN 1 ELSE 0)
              = 1

\* C7 witness: the consumer has dequeued nothing, the queue is full and a
\* producer is suspended in put holding its next item.
C7_Witness ==
    /\ ~StreamEnding
    /\ sReceived = << >>
    /\ Len(sQueue) = QueueMaxSize
    /\ \E p \in Producers :
          /\ sProd[p].pc = "put"
          /\ Count(sQueue, Candle(p, sProd[p].produced)) = 0

\* C8: every delivered item was yielded by the generator of exactly one
\* position, is delivered at most once, and the items of one position arrive
\* in the order they were yielded; two symbols that yielded one item each,
\* with nothing left in flight, have given the consumer exactly 2 items.
C8_InterleavingPerKeyOrder ==
    /\ \A k \in DOMAIN sReceived :
          /\ sReceived[k].pos \in Producers
          /\ sReceived[k].seq \in 1..sProd[sReceived[k].pos].produced
          /\ sReceived[k] = Candle(sReceived[k].pos, sReceived[k].seq)
    /\ \A k1, k2 \in DOMAIN sReceived :
          k1 < k2 =>
            /\ sReceived[k1] # sReceived[k2]
            /\ sReceived[k1].pos = sReceived[k2].pos
                 => sReceived[k1].seq < sReceived[k2].seq
    /\ ( /\ ~StreamEnding
         /\ Len(sSymbols) = 2
         /\ \A p \in Producers : sProd[p].produced = 1 /\ sProd[p].pc # "put"
         /\ sQueue = << >> )
          => Len(sReceived) = 2

\* C8 witness: the consumer received the item of the second symbol before
\* the item of the first one, two items in all.
C8_Witness ==
    /\ Len(sSymbols) = 2
    /\ \A p \in Producers : sProd[p].produced = 1
    /\ sReceived = << Candle(2, 1), Candle(1, 1) >>

(***************************************************************************)
(* Properties of the watch loops (checked under SpecStream)                *)
(***************************************************************************)

\* One step of the watch loop of a direct stream: a failure is logged at
\* error severity and followed by the 5 s sleep; the sleep is left for the
\* next watch call or by cancellation; the loop is left only by the caller.
LoopStepSelfHeals ==
    /\ (wPc = "watch" /\ wPc' = "sleep")
          => wErrorLogs' = wErrorLogs + 1 /\ wSleepFor' = WatchErrorDelay
    /\ (wPc = "watch" /\ wPc' # "watch")
          => wPc' \in { "sleep", "yielded", "silent", "ended" }
    /\ (wPc = "sleep" /\ wPc' # "sleep")
          => \/ wPc' \in { "watch", "silent" }
             \/ wPc' = "ended" /\ wEnd' = "cancelled"
    /\ (wPc \in { "watch", "silent", "yielded", "sleep" } /\ wPc' = "ended")
          => wEnd' \in { "break", "cancelled", "closed" }

\* The same for the loop of the generator behind producer p of
\* SubscribeKlines.
ProducerStepSelfHeals(p) ==
    /\ (sProd[p].pc = "watch" /\ sProd'[p].pc = "sleep")
          => /\ sProd'[p].errorLogs = sProd[p].errorLogs + 1
             /\ sProd'[p].sleepFor = WatchErrorDelay
    /\ (sProd[p].pc = "sleep" /\ sProd'[p].pc # "sleep")
          => \/ sProd'[p].pc \in { "watch", "silent" }
             \/ sProd'[p].pc = "done" /\ sProd[p].cancelReq
    /\ (sProd[p].pc # "done" /\ sProd'[p].pc = "done") => sProd[p].cancelReq

\* C21: a watch loop has no terminal failed state.  Every watch failure, of
\* any class and after any number of failures in a row, is followed by one
\* more error log record and a sleep of the fixed 5 s; the sleep ends in the
\* next watch call unless the loop is cancelled; and a loop ends only by the
\* caller's cancellation or close.
C21_WatchLoopSelfHeals ==
    [][ /\ LoopStepSelfHeals
        /\ \A p \in Producers : ProducerStepSelfHeals(p) ]_vars

\* C21 witness: after more consecutive failures than the retry policy has
\* attempts, each logged, the loop is watching again.
C21_Witness ==
    /\ wPc = "watch"
    /\ wFailures = max_retries + 2
    /\ wErrorLogs = wFailures

\* C22 as stated: a stream that has completed was ended by the caller.
C22_EndsOnlyOnCancel ==
    /\ wPc = "ended" => wEnd \in { "break", "cancelled", "closed" }
    /\ sPc \in { "join", "closed" } => sEndedBy \in { "cancelled", "closed" }

\* C22 (amended): a stream that has completed was ended by the caller,
\* except SubscribePrice called with an empty list of symbols, which
\* completes at once without calling the venue or yielding anything.
C22_EndsOnCancelOrEmptyPrice ==
    /\ wPc = "ended" =>
          \/ wEnd \in { "break", "cancelled", "closed" }
          \/ /\ wRpc = "SubscribePrice"
             /\ wSymbols = << >>
             /\ wCalls = 0
             /\ wYielded = 0
    /\ (wRpc = "SubscribePrice" /\ wSymbols = << >>) => wPc = "ended"
    /\ sPc \in { "join", "closed" } => sEndedBy \in { "cancelled", "closed" }

\* C22 witness: a stream that yielded items and went through failures has
\* been ended by the caller's cancellation.
C22_Witness ==
    /\ wPc = "ended"
    /\ wEnd = "break"
    /\ wYielded > 0
    /\ wErrorLogs > 0

(***************************************************************************)
(* Properties of the unary RPCs, continued (checked under SpecUnary)       *)
(***************************************************************************)

\* The failure a finished PlaceOrder surfaced is the one of its last attempt.
FinalFailure == attemptErrs[Len(attemptErrs)]

\* PlaceOrder called with its RPC context and not cancelled: a value and no
\* abort, or one abort carrying the status and message of the final failure
\* and, for a transient one, made after max_retries + 1 invocations; no abort
\* while the call is still running.
PlaceOrderOneOutcome ==
    hasContext =>
      /\ ~UnaryDone => aborts = << >>
      /\ (UnaryDone /\ outcome.kind = "return") => aborts = << >>
      /\ (UnaryDone /\ outcome.kind = "raise") =>
            /\ Len(aborts) = 1
            /\ outcome.exc = FinalFailure
            /\ aborts[1] = << EarliestRowStatus(FinalFailure.cls), FinalFailure.msg >>
            /\ IsTransient(FinalFailure) => invocations = max_retries + 1

\* The same for GetAccount.
GetAccountOneOutcome ==
    /\ gPc # "done" => gAborts = << >>
    /\ (gPc = "done" /\ gOutcome.kind = "return") => gAborts = << >>
    /\ (gPc = "done" /\ gOutcome.kind = "raise") =>
          /\ Len(gAborts) = 1
          /\ gAborts[1] = << EarliestRowStatus(gOutcome.exc.cls), gOutcome.exc.msg >>
          /\ IsTransient(gOutcome.exc) => gAttempt = max_retries

\* C23 as stated: every unary RPC that is not cancelled surfaces exactly one
\* outcome: a value and no abort, or exactly one abort with the status of
\* the final failure, for a transient failure only after all attempts.
C23_ExactlyOneOutcome ==
    PlaceOrderOneOutcome /\ GetAccountOneOutcome

\* C23 where it holds: PlaceOrder of both packages and GetAccount of
\* python-connector surface exactly one outcome.
C23_ExactlyOneOutcomeUnnested ==
    /\ PlaceOrderOneOutcome
    /\ gVariant = "python-connector" => GetAccountOneOutcome

\* C23 witness: GetAccount of python-connector failed on the positions with a
\* transient failure in every attempt and aborted once, at the end.
C23_Witness ==
    /\ gVariant = "python-connector"
    /\ gPc = "done"
    /\ gOutcome.kind = "raise"
    /\ gPositionsCalls = max_retries + 1
    /\ gAborts = << << "RESOURCE_EXHAUSTED", gOutcome.exc.msg >> >>

\* The first k create_order calls failed with a transient class and the
\* (k+1)-th, the last one, with DuplicateOrderId.
TransientThenDuplicate(k) ==
    /\ Len(submissions) = k + 1
    /\ \A i \in 1..k : submissions[i] \in TransientClasses
    /\ submissions[k + 1] = "DuplicateOrderId"

\* C24: for every k in 1..max_retries, a PlaceOrder with a client_order_id
\* whose first k submissions failed with a transient kind, whose (k+1)-th
\* failed with DUPLICATE and whose lookup did not fail has returned the
\* looked-up order, with create_order invoked k + 1 times, the lookup once
\* and no abort.
C24_RetryThenRecovery ==
    \A k \in 1..max_retries :
        ( /\ UnaryDone
          /\ outcome.kind # "cancelled"
          /\ TransientThenDuplicate(k)
          /\ request.client_order_id # ""
          /\ lastFetch.kind # "raise" )
            => /\ lastFetch.kind = "order"
               /\ outcome.kind = "return"
               /\ outcome.order.order_id =
                     (IF lastFetch.order.id.isdigit THEN lastFetch.order.id.n ELSE 0)
               /\ outcome.order.client_order_id = request.client_order_id
               /\ createCalls = k + 1
               /\ fetchCalls = 1
               /\ invocations = k + 1
               /\ aborts = << >>

\* C24 witness: max_retries transient failures, then the duplicate on the
\* last attempt the policy allows, recovered on a call with an RPC context.
C24_Witness ==
    /\ UnaryDone
    /\ hasContext
    /\ TransientThenDuplicate(max_retries)
    /\ outcome.kind = "return"
    /\ fetchCalls = 1
    /\ Len(slept) = max_retries

\* C26: a python-connector PlaceOrder whose side or type is unspecified
\* never reaches create_order and never sleeps for a retry; once finished it
\* has raised BadRequest after a single invocation, aborting with
\* INVALID_ARGUMENT when it has a context.
C26_UnspecifiedEnumRejected ==
    ( /\ variant = "python-connector"
      /\ pc # "idle"
      /\ (request.side = "UNSPECIFIED" \/ request.type = "UNSPECIFIED") )
        => /\ createCalls = 0
           /\ submissions = << >>
           /\ pc \in { "attempt", "done" }
           /\ slept = << >>
           /\ UnaryDone =>
                 /\ outcome.kind = "raise"
                 /\ outcome.exc.cls = "BadRequest"
                 /\ invocations = 1
                 /\ attempt = 0
                 /\ hasContext =>
                       aborts = << << "INVALID_ARGUMENT", outcome.exc.msg >> >>

\* C26 witness: a request with a valid type and an unspecified side was
\* rejected on a call with an RPC context.
C26_Witness ==
    /\ variant = "python-connector"
    /\ UnaryDone
    /\ hasContext
    /\ request.side = "UNSPECIFIED"
    /\ request.type = "LIMIT"
    /\ outcome.kind = "raise"
    /\ createCalls = 0

(***************************************************************************)
(* Properties of handle_ccxt_exception (checked under SpecHandler)         *)
(***************************************************************************)

\* The wrapped call failed with a venue failure.
HandlerFailed == hPc = "done" /\ hOutcome.kind = "raise"

\* An RPC context is among the arguments of the call, positional or keyword.
ContextAmongArguments ==
    \E i \in DOMAIN hCall.vals : hCall.vals[i] = "ctx"

\* An RPC context is the keyword argument named context, or one of the
\* positional arguments.
ContextByNameOrPosition ==
    \/ \E i \in (hCall.npos + 1)..Len(hCall.names) :
          hCall.names[i] = "context" /\ hCall.vals[i] = "ctx"
    \/ \E i \in 1..hCall.npos : hCall.vals[i] = "ctx"

\* abort was called exactly once, with the mapped status and the message of
\* the failure.
AbortedOnce ==
    hAborts = << << EarliestRowStatus(hOutcome.failure.cls), hOutcome.failure.msg >> >>

\* abort was not called and the failure of the function is what propagates.
PropagatedUnchanged ==
    hAborts = << >> /\ hOutcome.exc = hOutcome.failure

\* C25 as stated: on a venue failure abort is called exactly once with the
\* mapped status and the message whenever a context is among the arguments,
\* wherever it sits; with no context among them abort is not called and the
\* original failure propagates.
C25_AbortWhereverContextSits ==
    HandlerFailed =>
        IF ContextAmongArguments THEN AbortedOnce ELSE PropagatedUnchanged

\* C25 (amended): the same for a context passed as the keyword argument
\* named context or as any positional argument; a context passed by keyword
\* under another name is not found and counts as no context.
C25_AbortWhenContextFound ==
    HandlerFailed =>
        IF ContextByNameOrPosition THEN AbortedOnce ELSE PropagatedUnchanged

\* C25 witness: the context was passed positionally, followed by another
\* argument, and abort was called once.
C25_Witness ==
    /\ HandlerFailed
    /\ hCall.names = << "request", "context", "extra" >>
    /\ hCall.npos = 3
    /\ hCall.vals[2] = "ctx"
    /\ Len(hAborts) = 1

(***************************************************************************)
(* Properties of the batch RPCs, continued (checked under SpecBatch)       *)
(***************************************************************************)

\* cancel_orders has failed at least once in this call: the body ran again
\* or a failure left the RPC.
NativeCancelFailed ==
    cHasNative /\ (cAttempt > 0 \/ cPc = "sleep" \/ cOutcome.kind = "raise")

\* C27 as stated: with the native capability and a failed cancel_orders
\* call, BatchCancelOrders falls through to the fallback: the call is never
\* retried as a whole, every id is cancelled individually, and the finished
\* RPC has returned the fallback's response.
C27_NativeCancelFailureFallsBack ==
    NativeCancelFailed =>
        /\ cPc \in { "gather", "done" }
        /\ Len(cItems) = Len(cIds)
        /\ (cPc = "done" /\ cOutcome.kind # "cancelled") =>
              cOutcome.kind = "return" /\ cOutcome.path = "fallback"

\* C27 as the code behaves: with the native capability no id is ever
\* cancelled individually; a transient failure of cancel_orders makes
\* retry_transient call it again, and the failure that leaves the retry loop
\* aborts the whole RPC with its status.
C27_NativeCancelFailureSurfaces ==
    cHasNative =>
        /\ cItems = << >>
        /\ cNativeCalls <= max_retries + 1
        /\ (cPc = "done" /\ cOutcome.kind = "return") =>
              cOutcome.path = "native" /\ cOutcome.errors = << >>
        /\ (cPc = "done" /\ cOutcome.kind = "raise") =>
              /\ cAborts = << << EarliestRowStatus(cOutcome.exc.cls),
                                cOutcome.exc.msg >> >>
              /\ IsTransient(cOutcome.exc) => cNativeCalls = max_retries + 1
              /\ ~IsTransient(cOutcome.exc) => cNativeCalls = cAttempt + 1

\* C27 witness: the single cancel_orders call of a three-id batch failed with
\* a permanent failure and the RPC was aborted.
C27_Witness ==
    /\ cHasNative
    /\ Len(cIds) = 3
    /\ cPc = "done"
    /\ cOutcome.kind = "raise"
    /\ cNativeCalls = 1
    /\ cAborts # << >>
    /\ cAborts[1][1] = "NOT_FOUND"

\* Item i of the place fallback was recorded as a failure of a transient
\* kind.
ItemFailedTransient(i) ==
    /\ bItems[i].pc = "done"
    /\ bItems[i].result.kind = "exc"
    /\ IsTransient(bItems[i].result.exc)

\* The same for id i of the cancel fallback.
CancelFailedTransient(i) ==
    /\ cItems[i].pc = "done"
    /\ cItems[i].result.kind = "exc"
    /\ IsTransient(cItems[i].result.exc)

\* C29 as stated: an item of a fallback is recorded as a transient failure
\* only after max_retries + 1 attempts of its operation have failed.
C29_FallbackItemsRetried ==
    /\ \A i \in DOMAIN bItems :
          ItemFailedTransient(i) => bItems[i].createCalls = max_retries + 1
    /\ \A i \in DOMAIN cItems :
          CancelFailedTransient(i) => cItems[i].calls = max_retries + 1

\* C29 as the code behaves: the operation of a fallback item is invoked at
\* most once; its first failure, transient or not, is the item's result and
\* is reported in the response with its index and code.
C29_FallbackItemsSingleAttempt ==
    /\ \A i \in DOMAIN bItems :
          /\ bItems[i].createCalls <= 1
          /\ ItemFailedTransient(i) => bItems[i].createCalls = 1
          /\ (ItemFailedTransient(i) /\ bOutcome.kind = "return") =>
                \E k \in DOMAIN bOutcome.errors :
                    /\ bOutcome.errors[k].index = i - 1
                    /\ bOutcome.errors[k].code = 14
    /\ \A i \in DOMAIN cItems :
          /\ cItems[i].calls <= 1
          /\ (CancelFailedTransient(i) /\ cOutcome.kind = "return") =>
                \E k \in DOMAIN cOutcome.errors :
                    /\ cOutcome.errors[k].index = i - 1
                    /\ cOutcome.errors[k].code = 14

\* C29 witness: the response of a place fallback reports an item whose single
\* submission failed with a transient failure, next to one that succeeded.
C29_Witness ==
    /\ bOutcome.kind = "return"
    /\ Len(bItems) = 2
    /\ ItemFailedTransient(1)
    /\ bItems[1].createCalls = 1
    /\ bItems[2].result.kind # "exc"
    /\ Len(bOutcome.errors) = 1

\* The items whose task returned the k-th order of the response.
ItemsOfResponseOrder(k) ==
    { i \in DOMAIN bItems :
        bItems[i].result = [ kind |-> "order", order |-> bOutcome.orders[k] ] }

\* The fallback of BatchPlaceOrders has answered.
FallbackReturned == bItems # << >> /\ bOutcome.kind = "return"

\* C30: in a response of the fallback of BatchPlaceOrders, whatever the order
\* in which the tasks completed, every order comes from exactly one item, the
\* orders appear in increasing original index, every error carries the
\* original index (and client id and message) of a failed item, the errors
\* appear in increasing index, and no index is both an order and an error.
C30_ResponseOrderFollowsInput ==
    FallbackReturned =>
        /\ \A k \in DOMAIN bOutcome.orders :
              Cardinality(ItemsOfResponseOrder(k)) = 1
        /\ \A k1, k2 \in DOMAIN bOutcome.orders :
              k1 < k2 =>
                \A i1 \in ItemsOfResponseOrder(k1), i2 \in ItemsOfResponseOrder(k2) :
                    i1 < i2
        /\ \A k \in DOMAIN bOutcome.errors :
              /\ bOutcome.errors[k].index + 1 \in DOMAIN bItems
              /\ bItems[bOutcome.errors[k].index + 1].result.kind = "exc"
              /\ bOutcome.errors[k].error_message =
                    bItems[bOutcome.errors[k].index + 1].result.exc.msg
              /\ bOutcome.errors[k].client_order_id =
                    bOrders[bOutcome.errors[k].index + 1].client_order_id
        /\ \A k1, k2 \in DOMAIN bOutcome.errors :
              k1 < k2 => bOutcome.errors[k1].index < bOutcome.errors[k2].index
        /\ \A k \in DOMAIN bOutcome.orders, e \in DOMAIN bOutcome.errors :
              bOutcome.errors[e].index + 1 \notin ItemsOfResponseOrder(k)
        /\ Len(bOutcome.orders) + Len(bOutcome.errors) = Len(bItems)

\* C30 witness: three tasks finished in an order other than the request's,
\* the first and the third with an order, the second with a failure; the
\* response lists the two orders and the error of index 1.
C30_Witness ==
    /\ FallbackReturned
    /\ bReordered
    /\ Len(bItems) = 3
    /\ bItems[1].result.kind = "order"
    /\ bItems[2].result.kind = "exc"
    /\ bItems[3].result.kind = "order"
    /\ ItemsOfResponseOrder(1) = { 1 }
    /\ ItemsOfResponseOrder(2) = { 3 }
    /\ bOutcome.errors[1].index = 1

(***************************************************************************)
(* Properties of the surfaced statuses (checked under SpecSurface)         *)
(***************************************************************************)

\* A log record of error severity describes the failure with message m.
ErrorLogged(lg, m) ==
    \E j \in DOMAIN lg : lg[j].level = "error" /\ lg[j].exc.msg = m

\* Every abort with UNKNOWN in ab has its failure logged at error severity
\* in lg.
UnknownAbortsLogged(ab, lg) ==
    \A k \in DOMAIN ab : ab[k][1] = "UNKNOWN" => ErrorLogged(lg, ab[k][2])

\* Every per-item error with code UNKNOWN (2) of the response out has its
\* failure logged at error severity in lg.
UnknownItemsLogged(out, lg) ==
    out.kind = "return" =>
        \A k \in DOMAIN out.errors :
            out.errors[k].code = 2 => ErrorLogged(lg, out.errors[k].error_message)

\* C28: in every state, each failure surfaced with UNKNOWN, by an abort of a
\* wrapped call or of a batch RPC or as a per-item error of a batch
\* response, has a log record of error severity that describes it; a
\* failure of a wrapped call that matches no row of the table is surfaced as
\* UNKNOWN.
C28_UnknownLoggedAsError ==
    /\ UnknownAbortsLogged(hAborts, hLogs)
    /\ UnknownAbortsLogged(bAborts, bLogs)
    /\ UnknownAbortsLogged(cAborts, cLogs)
    /\ UnknownItemsLogged(bOutcome, bLogs)
    /\ UnknownItemsLogged(cOutcome, cLogs)
    /\ (HandlerFailed /\ hAborts # << >>
          /\ MatchingRows(hOutcome.failure.cls) = {})
          => hAborts[1][1] = "UNKNOWN" /\ ErrorLogged(hLogs, hOutcome.failure.msg)

\* C28 witness: a two-item fallback response reports one item with code
\* UNKNOWN while the other item succeeded.
C28_Witness ==
    /\ bOutcome.kind = "return"
    /\ Len(bOrders) = 2
    /\ Len(bOutcome.orders) = 1
    /\ Len(bOutcome.errors) = 1
    /\ bOutcome.errors[1].code = 2

(***************************************************************************)
(* Properties of the retry schedule (checked under SpecUnary)              *)
(***************************************************************************)

RECURSIVE TwoToThe(_)
\* 2^n
TwoToThe(n) == IF n = 0 THEN 1 ELSE 2 * TwoToThe(n - 1)

RECURSIVE SumOf(_)
\* The sum of a sequence of numbers.
SumOf(s) == IF s = << >> THEN 0 ELSE Head(s) + SumOf(Tail(s))

\* C31: the k-th sleep of the retry wrapper (k = 1, 2, ...) lasts
\* initial_backoff * 2^(k-1); there is no sleep before the first invocation
\* of the wrapped function, exactly one completed sleep between two
\* consecutive invocations and none after the last one, so that a call with
\* a invocations has slept initial_backoff * (2^(a-1) - 1) in total.
C31_ExponentialBackoff ==
    /\ \A k \in DOMAIN slept : slept[k] = initial_backoff * TwoToThe(k - 1)
    /\ invocations = 0 => slept = << >>
    /\ pc = "attempt" => Len(slept) = invocations
    /\ (pc \in { "create_order", "fetch_order", "sleep", "done" }
          /\ invocations > 0)
          => /\ Len(slept) = invocations - 1
             /\ SumOf(slept) = initial_backoff * (TwoToThe(invocations - 1) - 1)

\* C31 witness: a call that failed max_retries + 1 = 4 times has slept
\* three times, 1, 2 and 4 units.
C31_Witness ==
    /\ pc = "done"
    /\ invocations = 4
    /\ Len(slept) = 3
    /\ slept[3] = 4 * initial_backoff
    /\ SumOf(slept) = 7 * initial_backoff

(***************************************************************************)
(* Properties of the native call of a batch (checked under SpecBatch)      *)
(***************************************************************************)

\* C32 as stated: within one batch RPC the native primitive is invoked at
\* most once, whatever its failure.
C32_NativeInvokedAtMostOnce ==
    /\ bNativeCalls <= 1
    /\ cNativeCalls <= 1

\* C32 as the code behaves: create_orders is invoked at most once in a
\* BatchPlaceOrders call; cancel_orders is invoked once per run of the body
\* of BatchCancelOrders, which the retry wrapper re-runs after a transient
\* failure of that call, up to max_retries + 1 times.
C32_NativeOncePerBodyRun ==
    /\ bNativeCalls <= 1
    /\ cNativeCalls <= cAttempt + 1
    /\ cAttempt <= max_retries
    /\ (cHasNative /\ cPc # "idle") => cNativeCalls = cAttempt + 1

\* C32 witness: create_orders failed with a transient failure and the
\* BatchPlaceOrders call returned the fallback response without a second
\* create_orders call.
C32_Witness ==
    /\ bNativeErr # NoExc
    /\ IsTransient(bNativeErr)
    /\ bOutcome.kind = "return"
    /\ bNativeCalls = 1
    /\ bItems # << >>

(***************************************************************************)
(* Properties of cancelled watch loops (checked under SpecStream)          *)
(***************************************************************************)

\* Producer p holds an item that it never enqueued: it was blocked in
\* queue.put when the stream ended.
HoldsItem(p) ==
    sProd[p].produced >
        Cardinality({ k \in DOMAIN sQueue : sQueue[k].pos = p })
        + Cardinality({ k \in DOMAIN sReceived : sReceived[k].pos = p })

\* A step leaves the counters of producer p and the queue as they were.
ProducerQuiet(p) ==
    /\ sProd'[p].watchCalls = sProd[p].watchCalls
    /\ sProd'[p].errorLogs = sProd[p].errorLogs
    /\ sProd'[p].produced = sProd[p].produced
    /\ sQueue' = sQueue
    /\ sReceived' = sReceived

\* A step leaves the counters of the watch-loop stream as they were.
LoopQuiet ==
    /\ wCalls' = wCalls
    /\ wErrorLogs' = wErrorLogs
    /\ wYielded' = wYielded

\* C33: from the moment a producer of SubscribeKlines is cancelled, wherever
\* it is suspended, no step calls watch_ohlcv for it, logs an error for it,
\* takes an item from its generator or changes the queue, and a finished
\* producer stays as it is; the step in which a watch-loop stream is
\* cancelled, and every step after its end, calls watch no more, logs
\* nothing and yields nothing.
C33_CancelledExitsSilently ==
    [][ /\ \A p \in Producers :
              sProd[p].cancelReq =>
                /\ ProducerQuiet(p)
                /\ sProd[p].pc = "done" => sProd'[p] = sProd[p]
        /\ (wPc \in { "watch", "silent", "sleep" } /\ wPc' = "ended") => LoopQuiet
        /\ wPc = "ended" => LoopQuiet /\ wPc' = "ended"
      ]_vars

\* C33 witness: the stream call completed after one producer was cancelled
\* in the delay that follows a failure and another one while it was blocked
\* on the full queue.
C33_Witness ==
    /\ sPc = "closed"
    /\ Len(sQueue) = QueueMaxSize
    /\ \E p, q \in Producers :
          /\ sProd[p].pc = "done" /\ sProd[p].sleepFor > 0
          /\ sProd[q].pc = "done" /\ HoldsItem(q)

(***************************************************************************)
(* Properties of the per-symbol loops (checked under SpecStream)           *)
(***************************************************************************)

\* The loop of producer p has failed and is failing still or waiting out
\* its delay.
Failing(p) == sProd[p].pc = "sleep" /\ sProd[p].errorLogs > 0

\* The caller has neither cancelled nor closed the SubscribeKlines call.
StreamLive == sPc # "idle" /\ sEndedBy = "none"

\* C34: while the caller has not ended the stream, a watch failure of a
\* symbol neither ends the stream nor finishes that symbol's producer nor
\* reaches the consumer (everything received is a candle of a requested
\* symbol); and while a symbol is waiting out its delay, every other symbol
\* whose watch is pending can have its result taken, a producer blocked on
\* the queue can put once there is room, and the consumer can take what is
\* in the queue.
C34_PerKeyLoopsIndependent ==
    StreamLive =>
        /\ sPc \in { "get", "yielded" }
        /\ \A k \in DOMAIN sReceived :
              /\ sReceived[k].pos \in DOMAIN sSymbols
              /\ sReceived[k].symbol = sSymbols[sReceived[k].pos]
        /\ \A p \in Producers :
              sProd[p].errorLogs > 0 =>
                /\ sProd[p].pc \in { "sleep", "watch", "put", "silent" }
                /\ ~sProd[p].cancelReq
        /\ \A p, q \in Producers :
              (p # q /\ Failing(p)) =>
                /\ sProd[q].pc = "start" => ENABLED ProducerStart(q)
                /\ sProd[q].pc = "watch" => ENABLED WatchReturns(q)
                /\ (sProd[q].pc = "put" /\ ~QueueFull(sQueue))
                      => ENABLED PutUnblocked(q)
        /\ ((\E p \in Producers : Failing(p)) /\ sPc = "get" /\ sQueue # << >>)
              => ENABLED ConsumerGet

\* C34 witness: the first symbol has failed twice and is waiting out its
\* delay without ever having produced an item, while the consumer has
\* received two items of the second symbol and a third one is in the queue.
C34_Witness ==
    /\ StreamLive
    /\ Len(sSymbols) = 2
    /\ Failing(1)
    /\ sProd[1].errorLogs = 2
    /\ sProd[1].produced = 0
    /\ Len(sReceived) = 2
    /\ \A k \in DOMAIN sReceived : sReceived[k].pos = 2
    /\ sQueue # << >>

(***************************************************************************)
(* Properties of python_connector's SubscribeKlines (checked under         *)
(* SpecLegacyStream)                                                       *)
(***************************************************************************)

\* The python_connector call has completed.
LegacyCompleted == sVariant = "python_connector" /\ sPc = "closed"

\* C35 as stated: when the python_connector call has completed, every
\* producer task has been cancelled and has finished, and the queue never
\* holds more than its bound.
C35_LegacyProducersJoined ==
    /\ LegacyCompleted =>
          \A p \in Producers : sProd[p].cancelReq /\ sProd[p].pc = "done"
    /\ sVariant = "python_connector" => Len(sQueue) <= QueueMaxSize

\* C35 as the code behaves: when the consumer was cancelled every producer
\* has been asked to cancel by the time the call completes, finished or not;
\* when the caller closed the stream no producer has been asked to cancel;
\* no producer is ever blocked in put.
C35_LegacyCancelRequestedOnly ==
    /\ (LegacyCompleted /\ sEndedBy = "cancelled")
          => \A p \in Producers : sProd[p].cancelReq \/ sProd[p].pc = "done"
    /\ (LegacyCompleted /\ sEndedBy = "closed")
          => \A p \in Producers : ~sProd[p].cancelReq /\ sProd[p].pc # "done"
    /\ sVariant = "python_connector"
          => \A p \in Producers : sProd[p].pc # "put"

\* C35 witness: the caller closed the stream after one item; afterwards a
\* producer went on watching and the queue holds more items than the bound
\* of the other package allows.
C35_Witness ==
    /\ LegacyCompleted
    /\ sEndedBy = "closed"
    /\ Len(sReceived) = 1
    /\ Len(sQueue) > QueueMaxSize
    /\ \E p \in Producers : sProd[p].pc = "watch" /\ sProd[p].watchCalls > 2

(***************************************************************************)
(* Properties of python_connector's BatchPlaceOrders (checked under        *)
(* SpecLegacyBatch)                                                        *)
(***************************************************************************)

\* The items of the python_connector batch that ended with a failure.
LegacyFailedItems ==
    { i \in DOMAIN lItems :
        lItems[i].pc = "done" /\ lItems[i].result.kind = "exc" }

\* C36 as stated: in the fallback of python_connector no item failure calls
\* context.abort on the context of the batch RPC, and the call returns the
\* response with the orders of the items that succeeded.
C36_LegacyItemFailureIsolated ==
    /\ \A i \in DOMAIN lItems : lItems[i].abort = "none"
    /\ (lPc = "done" /\ lItems # << >>) => lOutcome.kind = "return"

\* C36 as the code behaves: every failed item whose failure the handler
\* catches has called context.abort with the status of its failure when the
\* batch was given a context, and none has when it was given none; failed
\* or not, the call returns a response that holds the orders of exactly the
\* items that succeeded.
C36_LegacyItemFailureAborts ==
    /\ \A i \in LegacyFailedItems :
          lItems[i].abort =
            IF lContext THEN StatusCodeOfLegacy(lItems[i].result.exc) ELSE "none"
    /\ \A i \in DOMAIN lItems \ LegacyFailedItems : lItems[i].abort = "none"
    /\ (lPc = "done" /\ lItems # << >>)
          => /\ lOutcome.kind = "return"
             /\ Len(lOutcome.orders) + Cardinality(LegacyFailedItems) = Len(lItems)
             /\ lOutcome.all_success = (LegacyFailedItems = {})

\* C36 witness: with a context, the first of two items failed with a
\* permanent failure and aborted the context with UNKNOWN, the second one
\* succeeded and the response holds its order.
C36_Witness ==
    /\ lPc = "done"
    /\ lContext
    /\ Len(lItems) = 2
    /\ LegacyFailedItems = { 1 }
    /\ lItems[1].abort = "UNKNOWN"
    /\ lOutcome.kind = "return"
    /\ Len(lOutcome.orders) = 1

(***************************************************************************)
(* Properties of the rounds of PlaceOrder (checked under SpecUnary)        *)
(***************************************************************************)

\* Number of create_order calls so far that raised DuplicateOrderId.
DuplicateSubmissions ==
    Cardinality({ k \in DOMAIN submissions : submissions[k] = "DuplicateOrderId" })

\* C37: every round of PlaceOrder that reaches the venue starts with
\* create_order, also the round after a lookup that failed with a transient
\* failure: a lookup is only made in a round whose create_order raised
\* DuplicateOrderId, at most one per round.  Over one call the wrapped
\* function runs at most max_retries + 1 times, and so create_order and
\* fetch_order are each invoked at most max_retries + 1 times.
C37_RetryRerunsSubmission ==
    /\ invocations <= max_retries + 1
    /\ createCalls <= invocations
    /\ fetchCalls <= createCalls
    /\ fetchCalls <= DuplicateSubmissions
    /\ createCalls <= max_retries + 1
    /\ fetchCalls <= max_retries + 1
    /\ pc = "fetch_order" =>
          /\ Len(submissions) = createCalls
          /\ submissions[createCalls] = "DuplicateOrderId"
          /\ fetchCalls = DuplicateSubmissions
    /\ (pc = "create_order" /\ lastFetch.kind = "raise")
          => /\ RetryCaught(lastFetch.exc)
             /\ createCalls = fetchCalls + 1 + (Len(submissions) - DuplicateSubmissions)

\* C37 witness: in each of max_retries + 1 rounds create_order raised
\* DuplicateOrderId and the lookup failed with a transient failure; the call
\* ended after four create_order calls and four lookups.
C37_Witness ==
    /\ pc = "done"
    /\ outcome.kind = "raise"
    /\ createCalls = max_retries + 1
    /\ fetchCalls = max_retries + 1
    /\ DuplicateSubmissions = max_retries + 1
    /\ lastFetch.kind = "raise"
    /\ RetryCaught(lastFetch.exc)

(***************************************************************************)
(* Progress of a SubscribeKlines call (checked under SpecCallRuns)         *)
(***************************************************************************)

\* Producer p of call 1 is blocked in queue.put.
Blocked(p) == p \in CallProducers(1) /\ kCall[1].prod[p].pc = "put"

\* An item of producer p of call 1 is in the queue.
Queued(p) == \E k \in DOMAIN kQueue[1] : kQueue[1][k] = CallItem(1, p)

\* The body of call 1 is yielding an item of producer p.
Yielding(p) == kCall[1].pc = "yielded" /\ kCall[1].last = CallItem(1, p)

\* C38 as stated: with a consumer that keeps pulling and no cancellation,
\* every item a producer obtained is eventually yielded: a producer
\* blocked on the full queue eventually enqueues its item, and an item in
\* the queue is eventually yielded.
C38_EveryItemEventuallyYielded ==
    \A p \in CallPositions :
        /\ Blocked(p) ~> ~Blocked(p)
        /\ Queued(p) ~> Yielding(p)

\* C38 as the code behaves: an item that entered the queue is eventually
\* yielded, and a producer stays blocked on the full queue for ever only if
\* again and again another producer takes the place that was freed.
C38_YieldedUnlessOvertaken ==
    \A p \in CallPositions :
        /\ Queued(p) ~> Yielding(p)
        /\ (<>[]Blocked(p)) => ([]<>kCall[1].overtook)

\* C38 witness: the second producer has just put an item in the place the
\* consumer freed while the first producer was blocked on the queue.
C38_Witness ==
    /\ Blocked(1)
    /\ kCall[1].overtook
    /\ QueueFull(kQueue[1])
    /\ kQueue[1][Len(kQueue[1])] = CallItem(1, 2)

(***************************************************************************)
(* Concurrent SubscribeKlines calls (checked under SpecCalls)              *)
(***************************************************************************)

\* Call c is running: its caller has neither cancelled nor closed it.
CallRunning(c) == kCall[c].pc \in { "get", "yielded" }

\* C39: concurrent SubscribeKlines calls are independent: a call has one
\* producer per requested symbol, its queue holds only items of its own
\* producers, its consumer is handed only items of its own producers, and
\* while it runs none of its producers is cancelled, whatever the other
\* calls did.
C39_CallsIndependent ==
    \A c \in CallIds :
        /\ kCall[c].pc # "idle" => Len(kCall[c].prod) = kCall[c].nsym
        /\ \A k \in DOMAIN kQueue[c] : kQueue[c][k].call = c
        /\ kCall[c].last.call \in { 0, c }
        /\ CallRunning(c) =>
              \A p \in CallProducers(c) :
                  /\ ~kCall[c].prod[p].cancelReq
                  /\ kCall[c].prod[p].pc # "done"

\* C39 witness: the first call was cancelled and its two producers have
\* finished, while the second call has just yielded an item of its own and
\* its producers run on.
C39_Witness ==
    /\ kCall[1].pc = "closed"
    /\ kCall[1].nsym = 2
    /\ \A p \in CallProducers(1) : kCall[1].prod[p].pc = "done"
    /\ kCall[1].last = CallItem(1, 1)
    /\ kCall[2].pc = "yielded"
    /\ kCall[2].last = CallItem(2, 2)
    /\ kCall[2].nsym = 2
    /\ kCall[2].prod[1].pc = "watch"
    /\ kQueue[2] # << >>

(***************************************************************************)
(* Market metadata loading (checked under SpecMarkets)                     *)
(***************************************************************************)

\* The callers that are inside load_markets.
Loading == { t \in Callers : ensure[t].pc = "loading" }

\* Caller t enters _ensure_markets and starts load_markets.
LoadsAgain(t) ==
    /\ \E rpc \in MarketRpcs : EnsureMarkets(t, rpc)
    /\ ensure'[t].pc = "loading"
    /\ OnlyMarkets

\* C40: for every interleaving of concurrent callers of _ensure_markets, at
\* most one load_markets call is in progress, load_markets is not started
\* once a load has succeeded, the loaded flag is set exactly when a load
\* has succeeded, and while it is unset (after a failed load included) a
\* caller that finds the lock free loads again.
C40_MarketsLoadedOnce ==
    /\ Cardinality(Loading) <= 1
    /\ \A t \in Loading : market_lock = t
    /\ ~loads.late
    /\ markets_loaded <=> loads.succeeded
    /\ \A t \in Callers :
          (~markets_loaded /\ market_lock = 0 /\ ensure[t].pc = "idle")
              => ENABLED LoadsAgain(t)

\* C40 witness: a load failed and a later caller's load succeeded, while a
\* third caller, which waited for the lock, returns without loading.
C40_Witness ==
    /\ loads.failed
    /\ markets_loaded
    /\ ensure[1].pc = "raised"
    /\ ensure[2].pc = "returned"
    /\ ensure[3].pc = "wait"
    /\ market_lock = 0

====
